---------------------------- MODULE Spec2Model ----------------------------
(***************************************************************************)
(* A model of the ephemeral in-process state engine of chroma-mcp:         *)
(*   - MemoryCache              (src/chroma_mcp/cache.py)                  *)
(*   - EntityRelationshipMapper (src/chroma_mcp/entity_mapper.py)          *)
(*   - SwarmTracker             (src/chroma_mcp/swarm.py)                  *)
(*   - AutoScaler               (src/chroma_mcp/maintenance.py)            *)
(*                                                                         *)
(* Python's Optional[T] is modelled as a sequence of length 0 or 1:        *)
(* None is <<>> and a present value x is <<x>>.  An OrderedDict is a       *)
(* sequence of records in insertion order (first = oldest, popped by       *)
(* popitem(last=False)).  time.time() is an integer clock `now` that is    *)
(* read once per operation and advanced by Tick.                           *)
(***************************************************************************)
EXTENDS Integers, Sequences, FiniteSets, TLC

VARIABLES
    now,              \* time.time()
    max_size,         \* MemoryCache.max_size
    default_ttl,      \* MemoryCache.default_ttl
    _cache,           \* MemoryCache._cache: the tenant-less OrderedDict
    _project_caches,  \* MemoryCache._project_caches: project id -> OrderedDict
    _entities,        \* EntityRelationshipMapper._entities
    _relationships,   \* EntityRelationshipMapper._relationships
    _entity_index,    \* EntityRelationshipMapper._entity_index
    _relationship_index, \* EntityRelationshipMapper._relationship_index
    evaporation_rate, \* SwarmTracker.evaporation_rate
    _trails,          \* SwarmTracker._trails
    _operation_patterns, \* SwarmTracker._operation_patterns
    metrics_history,  \* AutoScaler.metrics_history
    scaling_decisions, \* AutoScaler.scaling_decisions
    tasks,            \* the calls that threads are in the middle of
    last              \* the last call made on the engine, with what it returned

cacheVars == <<max_size, default_ttl, _cache, _project_caches>>
graphVars == <<_entities, _relationships, _entity_index, _relationship_index>>
swarmVars == <<evaporation_rate, _trails, _operation_patterns>>
scalerVars == <<metrics_history, scaling_decisions>>
vars == <<now, cacheVars, graphVars, swarmVars, scalerVars, tasks, last>>

-----------------------------------------------------------------------------
(* Bounds of the model and the inputs the calls draw from.                 *)

MaxTime == 2
MaxAccess == 1
MaxPatterns == 3

DefaultTtl == 3600

None == <<>>
Some(x) == <<x>>

\* The max_size values a cache is constructed with.
MaxSizes == {1, 2}

CacheKeys == {"k1", "k2"}
CacheData == {"v1", "v2"}
TtlArgs == {None, Some(1)}
ProjectArgs == {None, Some("A"), Some("B")}
Queries == {"q1"}
Collections == {"c1"}

\* Python truthiness of an Optional[str] / Optional[int] argument.
TruthyStr(opt) == opt # None /\ opt[1] # ""
TruthyInt(opt) == opt # None /\ opt[1] # 0

-----------------------------------------------------------------------------
(* CacheEntry                                                              *)

\* CacheEntry.__init__ at time t
CacheEntry(key, data, ttl, t) ==
    [key |-> key, data |-> data, timestamp |-> t, ttl |-> ttl,
     access_count |-> 0, last_access |-> t]

is_expired(entry, t) == t - entry.timestamp > entry.ttl

access(entry, t) ==
    [entry EXCEPT !.access_count = @ + 1, !.last_access = t]

-----------------------------------------------------------------------------
(* MemoryCache helpers                                                     *)

\* json.dumps of an Optional[str]
JsonStr(opt) == IF opt = None THEN "null" ELSE "\"" \o opt[1] \o "\""

\* json.dumps(..., sort_keys=True) of {"query", "collection", "project"},
\* then sha256(...).hexdigest(), the hash taken as collision-free.
_generate_key(query, collection_name, project_id) ==
    "sha256({\"collection\": \"" \o collection_name
        \o "\", \"project\": " \o JsonStr(project_id)
        \o ", \"query\": \"" \o query \o "\"})"

KeysOf(cache) == {cache[i].key : i \in 1..Len(cache)}

IndexOf(cache, key) == CHOOSE i \in 1..Len(cache) : cache[i].key = key

EntryOf(cache, key) == cache[IndexOf(cache, key)]

\* The keys of an OrderedDict, oldest first.
KeySeq(cache) == [i \in 1..Len(cache) |-> cache[i].key]

\* del cache[key]
DelKey(cache, key) == SelectSeq(cache, LAMBDA e : e.key # key)

\* A set that keeps the entry a key already has (cache.setdefault).
PutLast_keep_existing(cache, entry) ==
    IF entry.key \in KeysOf(cache)
    THEN Append(DelKey(cache, entry.key), EntryOf(cache, entry.key))
    ELSE Append(cache, entry)

\* cache[key] = entry; cache.move_to_end(key)
PutLast(cache, entry) == Append(DelKey(cache, entry.key), entry)

\* The eviction loop with `>` for `>=`: it makes no room for the new entry.
RECURSIVE _evict_if_over(_, _)
_evict_if_over(cache, ms) ==
    IF Len(cache) > ms /\ cache # <<>>
    THEN _evict_if_over(Tail(cache), ms)
    ELSE cache

\* while len(cache) >= self.max_size: cache.popitem(last=False)
\* (the loop as far as it runs before popitem finds the dict empty)
RECURSIVE _evict_if_needed(_, _)
_evict_if_needed(cache, ms) ==
    IF Len(cache) >= ms /\ cache # <<>>
    THEN _evict_if_needed(Tail(cache), ms)
    ELSE cache

\* popitem(last=False) on an empty OrderedDict raises KeyError: the loop
\* reaches length 0 with len(cache) >= max_size still true iff max_size <= 0.
EvictRaises(ms) == ms <= 0

\* The entries _evict_if_needed popped, oldest first.
Evicted(before, after) == SubSeq(before, 1, Len(before) - Len(after))

_cleanup_expired(cache, t) == SelectSeq(cache, LAMBDA e : ~is_expired(e, t))

\* A _get_cache that hands every project the tenant-less OrderedDict.
_get_cache_shared(project_id) == None

\* _get_cache returns a reference to an OrderedDict: None names self._cache,
\* Some(p) names self._project_caches[p].
_get_cache(project_id) ==
    IF TruthyStr(project_id) THEN Some(project_id[1]) ELSE None

\* The entries of the OrderedDict a reference names (a project's OrderedDict
\* is created empty by the first _get_cache that names it).
Store(ref) ==
    IF ref = None THEN _cache
    ELSE IF ref[1] \in DOMAIN _project_caches THEN _project_caches[ref[1]]
    ELSE <<>>

\* The stores after a call that obtained `ref` from _get_cache and left the
\* OrderedDict holding `cache`.
PutStore(ref, cache) ==
    IF ref = None
    THEN /\ _cache' = cache
         /\ _project_caches' = _project_caches
    ELSE /\ _project_caches' =
              [p \in DOMAIN _project_caches \cup {ref[1]} |->
                  IF p = ref[1] THEN cache ELSE _project_caches[p]]
         /\ _cache' = _cache

-----------------------------------------------------------------------------
(* MemoryCache operations                                                  *)

\* ttl = ttl or self.default_ttl
EffectiveTtl(ttl) == IF TruthyInt(ttl) THEN ttl[1] ELSE default_ttl

\* MemoryCache.set, lines 83-93; `op` is the public call it runs under.
SetBody(op, args, key, data, ttl, project_id) ==
    LET ref    == _get_cache(project_id)
        cache1 == _cleanup_expired(Store(ref), now)
        cache2 == _evict_if_needed(cache1, max_size)
        entry  == CacheEntry(key, data, EffectiveTtl(ttl), now)
    IN  IF EvictRaises(max_size)
        THEN /\ PutStore(ref, cache2)
             /\ last' = [op |-> op, args |-> args, key |-> key, data |-> data,
                         ttl |-> ttl, project_id |-> project_id,
                         ret |-> None, raised |-> Some("KeyError"),
                         evicted |-> KeySeq(Evicted(cache1, cache2))]
        ELSE /\ PutStore(ref, PutLast(cache2, entry))
             /\ last' = [op |-> op, args |-> args, key |-> key, data |-> data,
                         ttl |-> ttl, project_id |-> project_id,
                         ret |-> Some(key), raised |-> None,
                         evicted |-> KeySeq(Evicted(cache1, cache2))]

\* A get that reports an expired entry as a miss and leaves it in place.
get_cache_after_keep_expired(cache, key, t) ==
    IF key \in KeysOf(cache) /\ ~is_expired(EntryOf(cache, key), t)
    THEN [cache EXCEPT ![IndexOf(cache, key)] = access(@, t)]
    ELSE cache

\* What MemoryCache.get leaves in the OrderedDict it looked the key up in.
get_cache_after(cache, key, t) ==
    IF key \notin KeysOf(cache) THEN cache
    ELSE IF is_expired(EntryOf(cache, key), t) THEN DelKey(cache, key)
    ELSE [cache EXCEPT ![IndexOf(cache, key)] = access(@, t)]

\* What MemoryCache.get returns.
get_ret(cache, key, t) ==
    IF key \notin KeysOf(cache) THEN None
    ELSE IF is_expired(EntryOf(cache, key), t) THEN None
    ELSE Some(EntryOf(cache, key).data)

\* Whether MemoryCache.get found the key's entry expired and deleted it
\* (lines 116-118).
get_deleted(cache, key, t) ==
    key \in KeysOf(cache) /\ is_expired(EntryOf(cache, key), t)

\* MemoryCache.get, lines 110-120.  The guard caps access_count.
GetBody(op, args, key, project_id) ==
    LET ref   == _get_cache(project_id)
        cache == Store(ref)
    IN  /\ get_ret(cache, key, now) # None
               => EntryOf(cache, key).access_count < MaxAccess
        /\ PutStore(ref, get_cache_after(cache, key, now))
        /\ last' = [op |-> op, args |-> args, key |-> key,
                    project_id |-> project_id,
                    ret |-> get_ret(cache, key, now), raised |-> None,
                    expired |-> get_deleted(cache, key, now)]

Set(key, data, ttl, project_id) ==
    /\ SetBody("set", None, key, data, ttl, project_id)
    /\ UNCHANGED <<now, max_size, default_ttl, graphVars, swarmVars,
                   scalerVars, tasks>>

Get(key, project_id) ==
    /\ GetBody("get", None, key, project_id)
    /\ UNCHANGED <<now, max_size, default_ttl, graphVars, swarmVars,
                   scalerVars, tasks>>

cache_query_result(query, result, collection_name, project_id, ttl) ==
    /\ SetBody("cache_query_result",
               [query |-> query, collection_name |-> collection_name],
               _generate_key(query, collection_name, project_id),
               result, ttl, project_id)
    /\ UNCHANGED <<now, max_size, default_ttl, graphVars, swarmVars,
                   scalerVars, tasks>>

get_query_result(query, collection_name, project_id) ==
    /\ GetBody("get_query_result",
               [query |-> query, collection_name |-> collection_name],
               _generate_key(query, collection_name, project_id), project_id)
    /\ UNCHANGED <<now, max_size, default_ttl, graphVars, swarmVars,
                   scalerVars, tasks>>

\* The number of entries of a cache that are expired at time t.
ExpiredCount(cache, t) == Len(SelectSeq(cache, LAMBDA e : is_expired(e, t)))

RECURSIVE TotalAccesses(_)
TotalAccesses(cache) ==
    IF cache = <<>> THEN 0
    ELSE Head(cache).access_count + TotalAccesses(Tail(cache))

\* A get_stats that sweeps the expired entries as it counts.
get_stats_sweeping(cache, t) == _cleanup_expired(cache, t)

\* What MemoryCache.get_stats leaves in the OrderedDict it reports on.
get_stats_cache_after(cache, t) == cache

\* MemoryCache.get_stats
get_stats(project_id) ==
    LET ref   == _get_cache(project_id)
        cache == Store(ref)
    IN  /\ PutStore(ref, get_stats_cache_after(cache, now))
        /\ last' = [op |-> "get_stats", project_id |-> project_id,
                    ret |-> Some([total_entries  |-> Len(cache),
                                  expired_count  |-> ExpiredCount(cache, now),
                                  active_entries |->
                                      Len(cache) - ExpiredCount(cache, now),
                                  total_accesses |-> TotalAccesses(cache),
                                  max_size       |-> max_size,
                                  default_ttl    |-> default_ttl]),
                    raised |-> None]
        /\ UNCHANGED <<now, max_size, default_ttl, graphVars, swarmVars,
                       scalerVars, tasks>>

\* MemoryCache.clear
clear(project_id) ==
    /\ IF TruthyStr(project_id)
       THEN /\ _project_caches' =
                 [p \in DOMAIN _project_caches |->
                     IF p = project_id[1] THEN <<>> ELSE _project_caches[p]]
            /\ _cache' = _cache
       ELSE /\ _cache' = <<>>
            /\ _project_caches' = _project_caches
    /\ last' = [op |-> "clear", project_id |-> project_id,
                ret |-> None, raised |-> None]
    /\ UNCHANGED <<now, max_size, default_ttl, graphVars, swarmVars,
                   scalerVars, tasks>>

\* A clear_all_projects that empties the tenant-less store as well.
clear_everything ==
    /\ _project_caches' = <<>>
    /\ _cache' = <<>>
    /\ last' = [op |-> "clear_all_projects", ret |-> None, raised |-> None,
                removed |-> {p \in DOMAIN _project_caches :
                                _project_caches[p] # <<>>}]
    /\ UNCHANGED <<now, max_size, default_ttl, graphVars, swarmVars,
                   scalerVars, tasks>>

\* MemoryCache.clear_all_projects
clear_all_projects ==
    /\ _project_caches' = <<>>
    /\ _cache' = _cache
    /\ last' = [op |-> "clear_all_projects", ret |-> None, raised |-> None,
                removed |-> {p \in DOMAIN _project_caches :
                                _project_caches[p] # <<>>}]
    /\ UNCHANGED <<now, max_size, default_ttl, graphVars, swarmVars,
                   scalerVars, tasks>>

\* time.time() moves on between two calls.
Tick ==
    /\ now < MaxTime
    /\ now' = now + 1
    /\ UNCHANGED <<cacheVars, graphVars, swarmVars, scalerVars, tasks, last>>


-----------------------------------------------------------------------------
(* EntityRelationshipMapper                                                *)

EntityIds == {"a", "b"}
EntityTypes == {"t1", "t2"}
RelationshipIds == {"r1", "r2"}
RelationshipTypes == {"knows"}
Depths == {-1, 0, 1, 2, 3}

\* Entity.__init__ (the properties dict is a payload no operation reads)
Entity(entity_id, entity_type) ==
    [entity_id |-> entity_id, entity_type |-> entity_type,
     relationships |-> {}]

\* Relationship.__init__
Relationship(relationship_id, source_id, target_id, relationship_type) ==
    [relationship_id |-> relationship_id, source_id |-> source_id,
     target_id |-> target_id, relationship_type |-> relationship_type]

\* d[k] = v on a dict
DictSet(d, k, v) == [x \in DOMAIN d \cup {k} |-> IF x = k THEN v ELSE d[x]]

\* d[k].add(v) on a defaultdict(set)
IndexAdd(d, k, v) ==
    [x \in DOMAIN d \cup {k} |->
        IF x = k THEN (IF k \in DOMAIN d THEN d[k] ELSE {}) \cup {v}
        ELSE d[x]]

\* EntityRelationshipMapper.add_entity
add_entity(entity_id, entity_type) ==
    /\ _entities' = DictSet(_entities, entity_id, Entity(entity_id, entity_type))
    /\ _entity_index' = IndexAdd(_entity_index, entity_type, entity_id)
    /\ UNCHANGED <<_relationships, _relationship_index>>
    /\ last' = [op |-> "add_entity", entity_id |-> entity_id,
                entity_type |-> entity_type,
                ret |-> Some(Entity(entity_id, entity_type)), raised |-> None]
    /\ UNCHANGED <<now, cacheVars, swarmVars, scalerVars, tasks>>

\* An endpoint check that looks at the source only.
SourceMissing(source_id, target_id) == source_id \notin DOMAIN _entities

\* if source_id not in self._entities or target_id not in self._entities
EndpointMissing(source_id, target_id) ==
    source_id \notin DOMAIN _entities \/ target_id \notin DOMAIN _entities

\* An attachment that registers the relationship with its source only.
AttachToSource(entities, source_id, target_id, relationship_id) ==
    [e \in DOMAIN entities |->
        IF e = source_id
        THEN [entities[e] EXCEPT !.relationships = @ \cup {relationship_id}]
        ELSE entities[e]]

\* self._entities[source_id].relationships.add(relationship_id)
\* self._entities[target_id].relationships.add(relationship_id)
AttachRelationship(entities, source_id, target_id, relationship_id) ==
    [e \in DOMAIN entities |->
        IF e \in {source_id, target_id}
        THEN [entities[e] EXCEPT !.relationships = @ \cup {relationship_id}]
        ELSE entities[e]]

\* EntityRelationshipMapper.add_relationship
add_relationship(relationship_id, source_id, target_id, relationship_type) ==
    /\ IF EndpointMissing(source_id, target_id)
       THEN /\ UNCHANGED graphVars
            /\ last' = [op |-> "add_relationship",
                        relationship_id |-> relationship_id,
                        source_id |-> source_id, target_id |-> target_id,
                        relationship_type |-> relationship_type,
                        ret |-> None, raised |-> None]
       ELSE /\ _relationships' =
                 DictSet(_relationships, relationship_id,
                         Relationship(relationship_id, source_id, target_id,
                                      relationship_type))
            /\ _relationship_index' =
                 IndexAdd(_relationship_index, <<source_id, target_id>>,
                          relationship_id)
            /\ _entities' = AttachRelationship(_entities, source_id, target_id,
                                               relationship_id)
            /\ _entity_index' = _entity_index
            /\ last' = [op |-> "add_relationship",
                        relationship_id |-> relationship_id,
                        source_id |-> source_id, target_id |-> target_id,
                        relationship_type |-> relationship_type,
                        ret |-> Some(Relationship(relationship_id, source_id,
                                                  target_id, relationship_type)),
                        raised |-> None]
    /\ UNCHANGED <<now, cacheVars, swarmVars, scalerVars, tasks>>

\* The four structures of a mapper as one value, for the calls that
\* import_graph makes on the mapper while it rebuilds it.
Graph(entities, relationships, entity_index, relationship_index) ==
    [_entities |-> entities, _relationships |-> relationships,
     _entity_index |-> entity_index,
     _relationship_index |-> relationship_index]

\* import_graph without the four clear() calls: the maps emptied, the two
\* indices left as they were.
ClearMapsOnly(g) == Graph(<<>>, <<>>, g._entity_index, g._relationship_index)

\* The four clear() calls at the head of import_graph.
ClearGraph(g) == Graph(<<>>, <<>>, <<>>, <<>>)

\* add_entity, as import_graph calls it on the mapper g.
EntityAdded(g, entity_id, entity_type) ==
    [g EXCEPT !._entities = DictSet(@, entity_id,
                                    Entity(entity_id, entity_type)),
              !._entity_index = IndexAdd(@, entity_type, entity_id)]

\* Lines 98-103 of add_relationship, as import_graph runs them on the mapper
\* g once both endpoints are found.
RelationshipStored(g, relationship_id, source_id, target_id, relationship_type) ==
    [g EXCEPT !._relationships =
                  DictSet(@, relationship_id,
                          Relationship(relationship_id, source_id, target_id,
                                       relationship_type)),
              !._relationship_index =
                  IndexAdd(@, <<source_id, target_id>>, relationship_id),
              !._entities =
                  AttachRelationship(@, source_id, target_id,
                                     relationship_id)]

\* add_relationship without the check of its endpoints.
RelationshipAddedUnchecked(g, relationship_id, source_id, target_id, relationship_type) ==
    RelationshipStored(g, relationship_id, source_id, target_id,
                       relationship_type)

\* add_relationship, as import_graph calls it on the mapper g: nothing
\* changes when an endpoint is not an entity of g.
RelationshipAdded(g, relationship_id, source_id, target_id, relationship_type) ==
    IF source_id \notin DOMAIN g._entities
          \/ target_id \notin DOMAIN g._entities
    THEN g
    ELSE RelationshipStored(g, relationship_id, source_id, target_id,
                            relationship_type)

\* for entity_data in graph_data.get("entities", []): self.add_entity(...)
RECURSIVE ImportEntities(_, _)
ImportEntities(g, entities) ==
    IF entities = <<>> THEN g
    ELSE ImportEntities(EntityAdded(g, Head(entities).id, Head(entities).type),
                        Tail(entities))

\* for rel_data in graph_data.get("relationships", []):
\*     self.add_relationship(...)
RECURSIVE ImportRelationships(_, _)
ImportRelationships(g, relationships) ==
    IF relationships = <<>> THEN g
    ELSE LET rel_data == Head(relationships)
         IN  ImportRelationships(
                 RelationshipAdded(g, rel_data.id, rel_data.source,
                                   rel_data.target, rel_data.type),
                 Tail(relationships))

\* EntityRelationshipMapper.import_graph, graph_data being a dict with the
\* lists "entities" (dicts with id and type) and "relationships" (dicts with
\* id, source, target and type).
import_graph(graph_data) ==
    /\ LET g == ImportRelationships(
                    ImportEntities(
                        ClearGraph(Graph(_entities, _relationships,
                                         _entity_index, _relationship_index)),
                        graph_data.entities),
                    graph_data.relationships)
       IN  /\ _entities' = g._entities
           /\ _relationships' = g._relationships
           /\ _entity_index' = g._entity_index
           /\ _relationship_index' = g._relationship_index
    /\ last' = [op |-> "import_graph", graph_data |-> graph_data,
                ret |-> None, raised |-> None]
    /\ UNCHANGED <<now, cacheVars, swarmVars, scalerVars, tasks>>

\* The orders in which a for loop can run through a Python set of strings:
\* the order depends on the strings' hashes, which differ from one process
\* to the next.
RECURSIVE Orders(_)
Orders(S) ==
    IF S = {} THEN {<<>>}
    ELSE UNION {{<<x>> \o order : order \in Orders(S \ {x})} : x \in S}

\* EntityRelationshipMapper.get_connected_entities(entity_id) with no
\* relationship_type, the entity's relationships iterated in the given order:
\* the list of (other endpoint, relationship id) pairs.
get_connected_entities(entity_id, order) ==
    LET other_id(rel_id) ==
            LET rel == _relationships[rel_id]
            IN  IF rel.source_id = entity_id THEN rel.target_id
                ELSE rel.source_id
        connected == [i \in 1..Len(order) |->
                         [entity_id |-> other_id(order[i]),
                          relationship_id |-> order[i]]]
    IN  SelectSeq(connected, LAMBDA c : c.entity_id \in DOMAIN _entities)

\* if len(path) > max_depth: continue
DeeperThan(path, max_depth) == Len(path) > max_depth

\* if len(path) >= max_depth: continue
DepthReached(path, max_depth) == Len(path) >= max_depth

\* A stack in place of the queue: the entries found last are popped first.
PushFront(queue, found) == found \o queue

\* queue.append(...) for each connected entity, in the order found.
Enqueue(queue, found) == queue \o found

\* The while loop of find_path from the given queue and visited set: the
\* values it can return, over the orders in which the relationships of each
\* entity can be iterated.
RECURSIVE bfs(_, _, _, _)
bfs(queue, visited, target_id, max_depth) ==
    IF queue = <<>> THEN {None}
    ELSE LET current_id == Head(queue)[1]
             path == Head(queue)[2]
         IN  IF DepthReached(path, max_depth) \/ current_id \in visited
             THEN bfs(Tail(queue), visited, target_id, max_depth)
             ELSE UNION {
                 LET connected == get_connected_entities(current_id, order)
                     new_path(i) ==
                         Append(path,
                                <<current_id, connected[i].relationship_id>>)
                     hits == {i \in 1..Len(connected) :
                                 connected[i].entity_id = target_id}
                 IN  IF hits # {}
                     THEN LET i == CHOOSE h \in hits :
                                       \A k \in hits : h <= k
                          IN  {Some(Append(new_path(i), <<target_id, "">>))}
                     ELSE bfs(Enqueue(Tail(queue),
                                      [i \in 1..Len(connected) |->
                                          <<connected[i].entity_id,
                                            new_path(i)>>]),
                              visited \cup {current_id}, target_id,
                              max_depth)
                 : order \in Orders(_entities[current_id].relationships)}

\* if source_id == target_id, with the test left out.
NeverSame(source_id, target_id) == FALSE

\* if source_id == target_id
SameEndpoints(source_id, target_id) == source_id = target_id

\* The values find_path(source_id, target_id, max_depth) can return.
find_path_returns(source_id, target_id, max_depth) ==
    IF source_id \notin DOMAIN _entities \/ target_id \notin DOMAIN _entities
    THEN {None}
    ELSE IF SameEndpoints(source_id, target_id)
    THEN {Some(<<>>)}
    ELSE bfs(<<<<source_id, <<>>>>>>, {}, target_id, max_depth)

\* EntityRelationshipMapper.find_path
find_path(source_id, target_id, max_depth) ==
    /\ \E ret \in find_path_returns(source_id, target_id, max_depth) :
          last' = [op |-> "find_path", source_id |-> source_id,
                   target_id |-> target_id, max_depth |-> max_depth,
                   ret |-> ret, raised |-> None]
    /\ UNCHANGED <<now, cacheVars, graphVars, swarmVars, scalerVars, tasks>>

\* The lists a for loop over the values of a dict can build: _entities and
\* _relationships are modelled without the order of their keys, so every
\* order of the keys stands for the insertion order.
ValueLists(d) ==
    {[i \in 1..Len(order) |-> d[order[i]]] : order \in Orders(DOMAIN d)}

\* Entity.to_dict, list(self.relationships) being one of the orders of the
\* set.
EntityDict(entity) ==
    [id |-> entity.entity_id, type |-> entity.entity_type,
     relationships |-> CHOOSE order \in Orders(entity.relationships) : TRUE]

\* Relationship.to_dict
RelationshipDict(rel) ==
    [id |-> rel.relationship_id, source |-> rel.source_id,
     target |-> rel.target_id, type |-> rel.relationship_type]

\* The dicts export_graph can return.
export_graph_returns ==
    [entities :
         ValueLists([id \in DOMAIN _entities |-> EntityDict(_entities[id])]),
     relationships :
         ValueLists([id \in DOMAIN _relationships |->
                        RelationshipDict(_relationships[id])])]

\* EntityRelationshipMapper.export_graph
export_graph ==
    /\ \E ret \in export_graph_returns :
          last' = [op |-> "export_graph", ret |-> Some(ret), raised |-> None]
    /\ UNCHANGED <<now, cacheVars, graphVars, swarmVars, scalerVars, tasks>>

\* EntityRelationshipMapper.get_statistics
get_statistics ==
    LET entity_type_counts ==
            [entity_type \in DOMAIN _entity_index |->
                Cardinality(_entity_index[entity_type])]
        relationship_types ==
            {_relationships[r].relationship_type : r \in DOMAIN _relationships}
        relationship_type_counts ==
            [relationship_type \in relationship_types |->
                Cardinality({r \in DOMAIN _relationships :
                                _relationships[r].relationship_type
                                    = relationship_type})]
    IN  /\ last' = [op |-> "get_statistics",
                    ret |-> [total_entities |->
                                 Cardinality(DOMAIN _entities),
                             total_relationships |->
                                 Cardinality(DOMAIN _relationships),
                             entity_types |-> entity_type_counts,
                             relationship_types |->
                                 relationship_type_counts],
                    raised |-> None]
        /\ UNCHANGED <<now, cacheVars, graphVars, swarmVars, scalerVars,
                       tasks>>

\* if path: a list is true when it is not empty.
TruthyList(opt) == opt # None /\ opt[1] # <<>>

\* The tool chroma_find_entity_path of the server: find_path on the mapper,
\* and the dict built from what it returned.
chroma_find_entity_path(source_id, target_id, max_depth) ==
    /\ \E path \in find_path_returns(source_id, target_id, max_depth) :
          last' = [op |-> "chroma_find_entity_path", source_id |-> source_id,
                   target_id |-> target_id, max_depth |-> max_depth,
                   path |-> path,
                   ret |-> IF TruthyList(path)
                           THEN [found |-> TRUE, path |-> path,
                                 length |-> Len(path[1])]
                           ELSE [found |-> FALSE, path |-> None],
                   raised |-> None]
    /\ UNCHANGED <<now, cacheVars, graphVars, swarmVars, scalerVars, tasks>>

-----------------------------------------------------------------------------
(* SwarmTracker                                                            *)

(* A strength is a float between 0.0 and 1.0; the model counts strengths   *)
(* in units of 1/6000 and evaporation rates in units of 1/100 per minute,  *)
(* so that rate * seconds / 60 is a whole number of strength units for     *)
(* every whole number of seconds.  _trails, a dict, is the sequence of its *)
(* values in insertion order.  The 16 hex digits of the sha256 that name a *)
(* trail are modelled by the string that is hashed.                        *)

\* 1.0 as a strength.
One == 6000

\* 1.0 as an evaporation rate.
RateOne == 100

\* reinforce(amount: float = 0.1)
ReinforceAmount == 600

\* evaporation_rate: float = 0.01
DefaultEvaporationRate == 1

\* The rates a tracker is constructed with: 0.01 and 36.0 per minute.
EvaporationRates == {DefaultEvaporationRate, 3600}

OperationTypes == {"query"}
QueryArgs == {None, Some("q1")}
MinStrengths == {0, 3000, 6000}
Limits == {0, 1, 2}

Min(a, b) == IF a <= b THEN a ELSE b
Max(a, b) == IF a >= b THEN a ELSE b

\* PheromoneTrail(trail_id) constructed at time t.
PheromoneTrail(trail_id, t) ==
    [trail_id |-> trail_id, strength |-> One, last_update |-> t,
     access_count |-> 0, metadata |-> <<>>]

\* PheromoneTrail.reinforce() at time t.
reinforce(trail, t) ==
    [trail EXCEPT !.strength = Min(One, @ + ReinforceAmount),
                  !.last_update = t,
                  !.access_count = @ + 1]

\* rate * time_passed, the division by 60 left out.
evaporation_per_second(rate, time_passed) ==
    (rate * time_passed * One) \div RateOne

\* evaporation = rate * time_passed / 60
evaporation(rate, time_passed) ==
    (rate * time_passed * One) \div (RateOne * 60)

\* evaporate(rate) without the floor at 0.0.
evaporate_unfloored(trail, rate, t) ==
    [trail EXCEPT !.strength = @ - evaporation(rate, t - trail.last_update),
                  !.last_update = t]

\* PheromoneTrail.evaporate(rate) at time t.
evaporate(trail, rate, t) ==
    [trail EXCEPT
        !.strength = Max(0, @ - evaporation(rate, t - trail.last_update)),
        !.last_update = t]

\* query_str = query or ""
QueryStr(query) == IF TruthyStr(query) THEN query[1] ELSE ""

\* SwarmTracker._generate_trail_id
_generate_trail_id(operation_type, collection, query) ==
    operation_type \o ":" \o collection \o ":" \o query

\* The keys of the dict _trails.
TrailIds(trails) == {trails[i].trail_id : i \in 1..Len(trails)}

\* self._trails[trail_id], as a position in the dict.
TrailIndex(trails, trail_id) ==
    CHOOSE i \in 1..Len(trails) : trails[i].trail_id = trail_id

\* if trail_id not in self._trails, taken as true whatever the dict holds.
AlwaysNew(trails, trail_id) == TRUE

\* if trail_id not in self._trails
TrailMissing(trails, trail_id) == trail_id \notin TrailIds(trails)

\* self._trails[trail.trail_id] = trail: a new key goes last, an existing
\* key keeps its place.
TrailPut(trails, trail) ==
    IF trail.trail_id \in TrailIds(trails)
    THEN [trails EXCEPT ![TrailIndex(trails, trail.trail_id)] = trail]
    ELSE Append(trails, trail)

\* Lines 71-82 of track_operation: the trail is created with its metadata if
\* it is missing, and then reinforced.
TrackedTrails(trails, trail_id, metadata, t) ==
    LET created ==
            IF TrailMissing(trails, trail_id)
            THEN TrailPut(trails, [PheromoneTrail(trail_id, t) EXCEPT
                                      !.metadata = metadata])
            ELSE trails
    IN  [created EXCEPT ![TrailIndex(created, trail_id)] = reinforce(@, t)]

\* self._operation_patterns[collection_name], a defaultdict(list).
PatternsOf(patterns, collection_name) ==
    IF collection_name \in DOMAIN patterns THEN patterns[collection_name]
    ELSE <<>>

\* SwarmTracker.track_operation
track_operation(operation_type, collection_name, query) ==
    LET query_str == QueryStr(query)
        trail_id == _generate_trail_id(operation_type, collection_name,
                                       query_str)
    IN  /\ _trails' =
              TrackedTrails(_trails, trail_id,
                            [operation_type |-> operation_type,
                             collection |-> collection_name,
                             query |-> query_str, first_seen |-> now],
                            now)
        /\ _operation_patterns' =
              DictSet(_operation_patterns, collection_name,
                      Append(PatternsOf(_operation_patterns,
                                        collection_name),
                             [timestamp |-> now,
                              operation |-> operation_type,
                              trail_id |-> trail_id]))
        /\ last' = [op |-> "track_operation",
                    operation_type |-> operation_type,
                    collection_name |-> collection_name, query |-> query,
                    ret |-> trail_id, raised |-> None]
        /\ UNCHANGED <<now, cacheVars, graphVars, scalerVars, tasks,
                       evaporation_rate>>

\* The evaporation loop followed by a sweep that drops the trails left at
\* strength 0.0.
EvaporatedAndSwept(trails, rate, t) ==
    SelectSeq([i \in 1..Len(trails) |-> evaporate(trails[i], rate, t)],
              LAMBDA trail : trail.strength > 0)

\* for trail in self._trails.values(): trail.evaporate(self.evaporation_rate)
EvaporatedTrails(trails, rate, t) ==
    [i \in 1..Len(trails) |-> evaporate(trails[i], rate, t)]

\* The dict that get_hot_trails lists for a trail.
TrailDict(trail) ==
    [trail_id |-> trail.trail_id, strength |-> trail.strength,
     access_count |-> trail.access_count, metadata |-> trail.metadata]

\* One step of the stable sort: d goes behind every dict at least as strong.
InsertByStrength(sorted, d) ==
    LET k == Cardinality({i \in 1..Len(sorted) :
                             sorted[i].strength >= d.strength})
    IN  SubSeq(sorted, 1, k) \o <<d>> \o SubSeq(sorted, k + 1, Len(sorted))

\* The list as it is, not sorted.
Unsorted(hot_trails) == hot_trails

\* hot_trails.sort(key=lambda x: x["strength"], reverse=True): descending
\* by strength, dicts of equal strength keeping their order.
RECURSIVE SortByStrength(_)
SortByStrength(hot_trails) ==
    IF hot_trails = <<>> THEN <<>>
    ELSE InsertByStrength(
             SortByStrength(SubSeq(hot_trails, 1, Len(hot_trails) - 1)),
             hot_trails[Len(hot_trails)])

\* hot_trails[:limit]
Slice(hot_trails, limit) ==
    IF limit >= 0 THEN SubSeq(hot_trails, 1, Min(limit, Len(hot_trails)))
    ELSE SubSeq(hot_trails, 1, Max(0, Len(hot_trails) + limit))

\* Lines 108-121 of get_hot_trails, on the evaporated trails.
HotTrails(trails, min_strength, limit) ==
    LET dicts == [i \in 1..Len(trails) |-> TrailDict(trails[i])]
        hot_trails == SelectSeq(dicts,
                                LAMBDA d : d.strength >= min_strength)
    IN  Slice(SortByStrength(hot_trails), limit)

\* SwarmTracker.get_hot_trails
get_hot_trails(min_strength, limit) ==
    /\ _trails' = EvaporatedTrails(_trails, evaporation_rate, now)
    /\ last' = [op |-> "get_hot_trails", min_strength |-> min_strength,
                limit |-> limit,
                ret |-> HotTrails(_trails', min_strength, limit),
                raised |-> None]
    /\ UNCHANGED <<now, cacheVars, graphVars, scalerVars, tasks,
                   evaporation_rate, _operation_patterns>>

\* for pattern in patterns[-100:]
PatternWindow == 100

\* if current_time - pattern["timestamp"] < 3600
RecentSeconds == 3600

\* "patterns": patterns[-10:]
PatternTail == 10

\* seq[-n:] for n > 0
LastN(seq, n) == SubSeq(seq, Max(1, Len(seq) - n + 1), Len(seq))

\* SwarmTracker.get_collection_patterns
get_collection_patterns(collection_name) ==
    LET patterns == PatternsOf(_operation_patterns, collection_name)
        window == LastN(patterns, PatternWindow)
        operations == {window[i].operation : i \in 1..Len(window)}
        operation_counts ==
            [o \in operations |->
                Cardinality({i \in 1..Len(window) :
                                window[i].operation = o})]
        recent_operations ==
            SelectSeq(window,
                      LAMBDA pattern : now - pattern.timestamp < RecentSeconds)
    IN  /\ last' = [op |-> "get_collection_patterns",
                    collection_name |-> collection_name,
                    ret |-> IF patterns = <<>>
                            THEN [collection |-> collection_name,
                                  patterns |-> <<>>]
                            ELSE [collection |-> collection_name,
                                  total_operations |-> Len(patterns),
                                  operation_counts |-> operation_counts,
                                  recent_operations |->
                                      Len(recent_operations),
                                  patterns |-> LastN(patterns, PatternTail)],
                    raised |-> None]
        /\ UNCHANGED <<now, cacheVars, graphVars, swarmVars, scalerVars,
                       tasks>>

-----------------------------------------------------------------------------
(* AutoScaler                                                              *)

\* if len(self.metrics_history) > 100
HistoryLimit == 100

\* self.metrics_history[-10:] and len(self.metrics_history) > 10
RecentSamples == 10

\* if cpu_percent > 80
CpuHigh == 80

\* elif cpu_percent < 20
CpuLow == 20

\* all(c < 30 for c in recent_cpu)
CpuIdle == 30

\* if memory_percent > 85
MemoryHigh == 85

\* A metrics dict: each of its two keys is present (Some) or absent (None).
Metrics(cpu_percent, memory_percent) ==
    [cpu_percent |-> cpu_percent, memory_percent |-> memory_percent]

\* metrics.get(key, 0)
GetOrZero(value) == IF value = None THEN 0 ELSE value[1]

\* The samples a low reading is judged against, were they the whole history.
WholeHistory(history) == history

\* self.metrics_history[-10:]
RecentHistory(history) == LastN(history, RecentSamples)

\* all(c < 30 for c in recent_cpu)
ConsistentlyLow(history) ==
    LET recent == RecentHistory(history)
    IN  \A i \in 1..Len(recent) :
           GetOrZero(recent[i].metrics.cpu_percent) < CpuIdle

\* The recommendations dict analyze_and_scale builds from the sample and the
\* history the sample has been appended to.
Recommendations(history, metrics) ==
    LET cpu_percent == GetOrZero(metrics.cpu_percent)
        memory_percent == GetOrZero(metrics.memory_percent)
        initial == [scale_up |-> FALSE, scale_down |-> FALSE,
                    reason |-> "", suggested_action |-> None]
        after_cpu ==
            IF cpu_percent > CpuHigh
            THEN [initial EXCEPT
                     !.scale_up = TRUE,
                     !.reason = "High CPU usage detected",
                     !.suggested_action = Some("increase_workers")]
            ELSE IF /\ cpu_percent < CpuLow
                    /\ Len(history) > RecentSamples
                    /\ ConsistentlyLow(history)
            THEN [initial EXCEPT
                     !.scale_down = TRUE,
                     !.reason = "Consistently low CPU usage",
                     !.suggested_action = Some("decrease_workers")]
            ELSE initial
    IN  IF memory_percent > MemoryHigh
        THEN [after_cpu EXCEPT
                 !.scale_up = TRUE,
                 !.reason = "High memory usage detected",
                 !.suggested_action = Some("increase_memory_limit")]
        ELSE after_cpu

\* The history after the sample is appended and the oldest sample dropped
\* once there are more than 100.
HistoryWith(history, metrics, t) ==
    LET appended == Append(history, [timestamp |-> t, metrics |-> metrics])
    IN  IF Len(appended) > HistoryLimit THEN Tail(appended) ELSE appended

\* AutoScaler.analyze_and_scale
analyze_and_scale(metrics) ==
    LET history == HistoryWith(metrics_history, metrics, now)
        recommendations == Recommendations(history, metrics)
    IN  /\ metrics_history' = history
        /\ scaling_decisions' =
               Append(scaling_decisions,
                      [timestamp |-> now,
                       recommendations |-> recommendations])
        /\ last' = [op |-> "analyze_and_scale", metrics |-> metrics,
                    ret |-> recommendations, raised |-> None]
        /\ UNCHANGED <<now, cacheVars, graphVars, swarmVars, tasks>>

-----------------------------------------------------------------------------
(* Calls running on threads                                                *)

(* None of MemoryCache, SwarmTracker and EntityRelationshipMapper takes a  *)
(* lock, so between two statements of a method running on one thread       *)
(* another thread can run statements of its own call.  tasks maps a caller *)
(* to the call it is running or has run last: its arguments, the statement *)
(* it has reached (pc) and, once it is done, what it returned or raised.   *)
(* A step runs one statement or a few consecutive ones; every interleaving *)
(* of the steps is an interleaving of the statements.                      *)

Callers == {1, 2}

\* The caller is not inside a call.
Idle(c) == IF c \in DOMAIN tasks THEN tasks[c].pc = "done" ELSE TRUE

\* The caller is inside a call of op and has reached pc.
At(c, op, pc) == c \in DOMAIN tasks /\ tasks[c].op = op /\ tasks[c].pc = pc

\* The call returns ret or raises.
Done(task, ret, raised) ==
    [task EXCEPT !.pc = "done", !.ret = ret, !.raised = raised]

\* What a call that is done leaves in last.
LastOf(task) ==
    [f \in DOMAIN task \ {"pc"} |-> task[f]]

\* cache[key] = entry: a new key goes last, an existing key keeps its place.
SetItem(cache, entry) ==
    IF entry.key \in KeysOf(cache)
    THEN [cache EXCEPT ![IndexOf(cache, entry.key)] = entry]
    ELSE Append(cache, entry)

\* MemoryCache.set, lines 83-86: the ttl, _get_cache and _cleanup_expired.
SetBegin(c, key, data, ttl, project_id) ==
    LET ref == _get_cache(project_id)
    IN  /\ Idle(c)
        /\ PutStore(ref, _cleanup_expired(Store(ref), now))
        /\ tasks' = DictSet(tasks, c,
                            [op |-> "set", pc |-> "evict", key |-> key,
                             data |-> data, ttl |-> EffectiveTtl(ttl),
                             project_id |-> project_id,
                             ret |-> None, raised |-> None])
        /\ UNCHANGED <<now, max_size, default_ttl, graphVars, swarmVars,
                       scalerVars, last>>

\* _evict_if_needed: while len(cache) >= self.max_size
SetEvictTest(c) ==
    /\ At(c, "set", "evict")
    /\ tasks' = [tasks EXCEPT ![c].pc =
                    IF Len(Store(_get_cache(tasks[c].project_id))) >= max_size
                    THEN "pop" ELSE "insert"]
    /\ UNCHANGED <<now, cacheVars, graphVars, swarmVars, scalerVars, last>>

\* _evict_if_needed: cache.popitem(last=False), a KeyError when the
\* OrderedDict is empty.
SetPop(c) ==
    LET ref == _get_cache(tasks[c].project_id)
    IN  /\ At(c, "set", "pop")
        /\ IF Store(ref) = <<>>
           THEN /\ tasks' = [tasks EXCEPT
                                ![c] = Done(@, None, Some("KeyError"))]
                /\ last' = LastOf(tasks'[c])
                /\ UNCHANGED <<_cache, _project_caches>>
           ELSE /\ PutStore(ref, Tail(Store(ref)))
                /\ tasks' = [tasks EXCEPT ![c].pc = "evict"]
                /\ last' = last
        /\ UNCHANGED <<now, max_size, default_ttl, graphVars, swarmVars,
                       scalerVars>>

\* MemoryCache.set, lines 89-90: entry = CacheEntry(...); cache[key] = entry
SetInsert(c) ==
    LET ref == _get_cache(tasks[c].project_id)
    IN  /\ At(c, "set", "insert")
        /\ PutStore(ref, SetItem(Store(ref),
                                 CacheEntry(tasks[c].key, tasks[c].data,
                                            tasks[c].ttl, now)))
        /\ tasks' = [tasks EXCEPT ![c].pc = "move"]
        /\ UNCHANGED <<now, max_size, default_ttl, graphVars, swarmVars,
                       scalerVars, last>>

\* MemoryCache.set, lines 91-93: cache.move_to_end(key), a KeyError when
\* the key is not in the OrderedDict; return key
SetMove(c) ==
    LET ref == _get_cache(tasks[c].project_id)
        cache == Store(ref)
        key == tasks[c].key
    IN  /\ At(c, "set", "move")
        /\ IF key \in KeysOf(cache)
           THEN /\ PutStore(ref, PutLast(cache, EntryOf(cache, key)))
                /\ tasks' = [tasks EXCEPT ![c] = Done(@, Some(key), None)]
           ELSE /\ UNCHANGED <<_cache, _project_caches>>
                /\ tasks' = [tasks EXCEPT
                                ![c] = Done(@, None, Some("KeyError"))]
        /\ last' = LastOf(tasks'[c])
        /\ UNCHANGED <<now, max_size, default_ttl, graphVars, swarmVars,
                       scalerVars>>

\* track_operation, lines 68-71: the trail id and `if trail_id not in
\* self._trails`.
TrackBegin(c, operation_type, collection_name, query) ==
    LET query_str == QueryStr(query)
        trail_id == _generate_trail_id(operation_type, collection_name,
                                       query_str)
    IN  /\ Idle(c)
        /\ tasks' = DictSet(tasks, c,
                            [op |-> "track_operation",
                             pc |-> IF TrailMissing(_trails, trail_id)
                                    THEN "create" ELSE "reinforce",
                             operation_type |-> operation_type,
                             collection_name |-> collection_name,
                             query |-> query, query_str |-> query_str,
                             trail_id |-> trail_id,
                             ret |-> None, raised |-> None])
        /\ UNCHANGED <<now, cacheVars, graphVars, swarmVars, scalerVars,
                       last>>

\* track_operation, lines 72-78: a new PheromoneTrail is stored under the
\* trail id and given its metadata.
TrackCreate(c) ==
    LET task == tasks[c]
    IN  /\ At(c, "track_operation", "create")
        /\ _trails' =
              TrailPut(_trails,
                       [PheromoneTrail(task.trail_id, now) EXCEPT
                           !.metadata =
                               [operation_type |-> task.operation_type,
                                collection |-> task.collection_name,
                                query |-> task.query_str,
                                first_seen |-> now]])
        /\ tasks' = [tasks EXCEPT ![c].pc = "reinforce"]
        /\ UNCHANGED <<now, cacheVars, graphVars, scalerVars, last,
                       evaporation_rate, _operation_patterns>>

\* track_operation, lines 80-91: the trail is looked up and reinforced, the
\* pattern appended and the trail id returned.
TrackReinforce(c) ==
    LET task == tasks[c]
    IN  /\ At(c, "track_operation", "reinforce")
        /\ _trails' = [_trails EXCEPT
                          ![TrailIndex(_trails, task.trail_id)] =
                              reinforce(@, now)]
        /\ _operation_patterns' =
              DictSet(_operation_patterns, task.collection_name,
                      Append(PatternsOf(_operation_patterns,
                                        task.collection_name),
                             [timestamp |-> now,
                              operation |-> task.operation_type,
                              trail_id |-> task.trail_id]))
        /\ tasks' = [tasks EXCEPT ![c] = Done(@, Some(task.trail_id), None)]
        /\ last' = LastOf(tasks'[c])
        /\ UNCHANGED <<now, cacheVars, graphVars, scalerVars,
                       evaporation_rate>>

\* add_relationship, lines 86-96: the endpoints are checked and the
\* Relationship constructed.
RelationshipBegin(c, relationship_id, source_id, target_id, relationship_type) ==
    LET task == [op |-> "add_relationship", pc |-> "store",
                 relationship_id |-> relationship_id,
                 source_id |-> source_id, target_id |-> target_id,
                 relationship_type |-> relationship_type,
                 ret |-> None, raised |-> None]
    IN  /\ Idle(c)
        /\ IF EndpointMissing(source_id, target_id)
           THEN /\ tasks' = DictSet(tasks, c, Done(task, None, None))
                /\ last' = LastOf(tasks'[c])
           ELSE /\ tasks' = DictSet(tasks, c, task)
                /\ last' = last
        /\ UNCHANGED <<now, cacheVars, graphVars, swarmVars, scalerVars>>

\* add_relationship, lines 98-99: the relationship is stored and entered
\* in the pair index.
RelationshipStore(c) ==
    LET task == tasks[c]
    IN  /\ At(c, "add_relationship", "store")
        /\ _relationships' =
              DictSet(_relationships, task.relationship_id,
                      Relationship(task.relationship_id, task.source_id,
                                   task.target_id, task.relationship_type))
        /\ _relationship_index' =
              IndexAdd(_relationship_index,
                       <<task.source_id, task.target_id>>,
                       task.relationship_id)
        /\ tasks' = [tasks EXCEPT ![c].pc = "attach"]
        /\ UNCHANGED <<now, cacheVars, swarmVars, scalerVars, last,
                       _entities, _entity_index>>

\* add_relationship, lines 102-105: self._entities[source_id] and
\* self._entities[target_id] are looked up, a KeyError when the id is not a
\* key, and the relationship returned.  The source is attached before the
\* target is looked up.
RelationshipAttach(c) ==
    LET task == tasks[c]
        relationship ==
            Relationship(task.relationship_id, task.source_id,
                         task.target_id, task.relationship_type)
    IN  /\ At(c, "add_relationship", "attach")
        /\ IF task.source_id \notin DOMAIN _entities
           THEN /\ _entities' = _entities
                /\ tasks' = [tasks EXCEPT
                                ![c] = Done(@, None, Some("KeyError"))]
           ELSE IF task.target_id \notin DOMAIN _entities
           THEN /\ _entities' =
                      AttachRelationship(_entities, task.source_id,
                                         task.source_id,
                                         task.relationship_id)
                /\ tasks' = [tasks EXCEPT
                                ![c] = Done(@, None, Some("KeyError"))]
           ELSE /\ _entities' =
                      AttachRelationship(_entities, task.source_id,
                                         task.target_id,
                                         task.relationship_id)
                /\ tasks' = [tasks EXCEPT
                                ![c] = Done(@, Some(relationship), None)]
        /\ last' = LastOf(tasks'[c])
        /\ UNCHANGED <<now, cacheVars, swarmVars, scalerVars,
                       _relationships, _entity_index, _relationship_index>>

\* import_graph, lines 207-210: the four clear() calls.
ImportClear(c, graph_data) ==
    LET g == ClearGraph(Graph(_entities, _relationships, _entity_index,
                              _relationship_index))
    IN  /\ Idle(c)
        /\ _entities' = g._entities
        /\ _relationships' = g._relationships
        /\ _entity_index' = g._entity_index
        /\ _relationship_index' = g._relationship_index
        /\ tasks' = DictSet(tasks, c,
                            [op |-> "import_graph", pc |-> "load",
                             graph_data |-> graph_data,
                             ret |-> None, raised |-> None])
        /\ UNCHANGED <<now, cacheVars, swarmVars, scalerVars, last>>

\* import_graph, lines 212-228: the entities and the relationships of
\* graph_data are added to what the mapper holds by now.
ImportLoad(c) ==
    LET g == ImportRelationships(
                 ImportEntities(
                     Graph(_entities, _relationships, _entity_index,
                           _relationship_index),
                     tasks[c].graph_data.entities),
                 tasks[c].graph_data.relationships)
    IN  /\ At(c, "import_graph", "load")
        /\ _entities' = g._entities
        /\ _relationships' = g._relationships
        /\ _entity_index' = g._entity_index
        /\ _relationship_index' = g._relationship_index
        /\ tasks' = [tasks EXCEPT ![c] = Done(@, None, None)]
        /\ last' = LastOf(tasks'[c])
        /\ UNCHANGED <<now, cacheVars, swarmVars, scalerVars>>

\* if current_id in visited, taken as false whatever the set holds.
NeverVisited(visited, current_id) == FALSE

\* if current_id in visited
AlreadyVisited(visited, current_id) == current_id \in visited

\* find_path, lines 164-171: the tests of the endpoints, and the queue and
\* the visited set the while loop starts from.  expanded lists the ids
\* handed to visited.add, in the order of the calls.
SearchBegin(c, source_id, target_id, max_depth) ==
    LET task == [op |-> "find_path", pc |-> "loop",
                 source_id |-> source_id, target_id |-> target_id,
                 max_depth |-> max_depth,
                 queue |-> <<<<source_id, <<>>>>>>, visited |-> {},
                 expanded |-> <<>>, ret |-> None, raised |-> None]
    IN  /\ Idle(c)
        /\ IF source_id \notin DOMAIN _entities
              \/ target_id \notin DOMAIN _entities
           THEN /\ tasks' = DictSet(tasks, c, Done(task, None, None))
                /\ last' = LastOf(tasks'[c])
           ELSE IF SameEndpoints(source_id, target_id)
           THEN /\ tasks' = DictSet(tasks, c, Done(task, Some(<<>>), None))
                /\ last' = LastOf(tasks'[c])
           ELSE /\ tasks' = DictSet(tasks, c, task)
                /\ last' = last
        /\ UNCHANGED <<now, cacheVars, graphVars, swarmVars, scalerVars>>

\* find_path, lines 173-195: one turn of the while loop.  The loop ends
\* with None when the queue is empty; else the head is popped and skipped
\* when its path is max_depth long or its entity was visited, and else
\* expanded: the entity is added to visited, and the walk over its
\* connected entities returns the path to the target or appends them to
\* the queue.
SearchTurn(c) ==
    LET task == tasks[c]
        current_id == Head(task.queue)[1]
        path == Head(task.queue)[2]
    IN  /\ At(c, "find_path", "loop")
        /\ IF task.queue = <<>>
           THEN /\ tasks' = [tasks EXCEPT ![c] = Done(@, None, None)]
                /\ last' = LastOf(tasks'[c])
           ELSE IF DepthReached(path, task.max_depth)
                   \/ AlreadyVisited(task.visited, current_id)
           THEN /\ tasks' = [tasks EXCEPT ![c].queue = Tail(@)]
                /\ last' = last
           ELSE \E order \in Orders(_entities[current_id].relationships) :
                   LET connected == get_connected_entities(current_id, order)
                       new_path(i) ==
                           Append(path,
                                  <<current_id,
                                    connected[i].relationship_id>>)
                       hits == {i \in 1..Len(connected) :
                                   connected[i].entity_id = task.target_id}
                       found == new_path(CHOOSE h \in hits :
                                            \A k \in hits : h <= k)
                       expanded ==
                           [task EXCEPT
                               !.visited = @ \cup {current_id},
                               !.expanded = Append(@, current_id)]
                   IN  IF hits # {}
                       THEN /\ tasks' =
                                 [tasks EXCEPT ![c] =
                                     Done([expanded EXCEPT
                                              !.queue = Tail(@)],
                                          Some(Append(found,
                                                      <<task.target_id,
                                                        "">>)),
                                          None)]
                            /\ last' = LastOf(tasks'[c])
                       ELSE /\ tasks' =
                                 [tasks EXCEPT ![c] =
                                     [expanded EXCEPT
                                         !.queue =
                                             Enqueue(Tail(@),
                                                 [i \in 1..Len(connected)
                                                     |-> <<connected[i]
                                                               .entity_id,
                                                           new_path(i)>>])]]
                            /\ last' = last
        /\ UNCHANGED <<now, cacheVars, graphVars, swarmVars, scalerVars>>

-----------------------------------------------------------------------------
(* Specifications                                                          *)

\* MemoryCache(max_size, default_ttl), EntityRelationshipMapper(),
\* SwarmTracker(evaporation_rate) and AutoScaler() right after construction,
\* before any call.
InitOf(sizes, rates) ==
    /\ now = 0
    /\ max_size \in sizes
    /\ default_ttl = DefaultTtl
    /\ _cache = <<>>
    /\ _project_caches = <<>>
    /\ _entities = <<>>
    /\ _relationships = <<>>
    /\ _entity_index = <<>>
    /\ _relationship_index = <<>>
    /\ evaporation_rate \in rates
    /\ _trails = <<>>
    /\ _operation_patterns = <<>>
    /\ metrics_history = <<>>
    /\ scaling_decisions = <<>>
    /\ tasks = <<>>
    /\ last = [op |-> "init", ret |-> None, raised |-> None]

\* A cache of one of the sizes of MaxSizes.
InitWith(rates) == InitOf(MaxSizes, rates)

\* The engine as the server builds it: SwarmTracker() with its default rate.
Init == InitWith({DefaultEvaporationRate})

\* The calls a client can make on the cache with arguments drawn from the
\* given sets.
CacheCalls(keys, datas, ttls, projects, queries, collections) ==
    \/ \E key \in keys, data \in datas, ttl \in ttls, project_id \in projects :
          Set(key, data, ttl, project_id)
    \/ \E key \in keys, project_id \in projects : Get(key, project_id)
    \/ \E query \in queries, result \in datas, collection_name \in collections,
          project_id \in projects, ttl \in ttls :
          cache_query_result(query, result, collection_name, project_id, ttl)
    \/ \E query \in queries, collection_name \in collections,
          project_id \in projects :
          get_query_result(query, collection_name, project_id)
    \/ \E project_id \in projects : get_stats(project_id)
    \/ \E project_id \in projects : clear(project_id)
    \/ clear_all_projects

CacheNext ==
    \/ CacheCalls(CacheKeys, CacheData, TtlArgs, ProjectArgs, Queries,
                  Collections)
    \/ Tick

\* The calls a client can make on the graph with arguments drawn from the
\* given sets.
GraphCalls(ids, types, rids, rtypes) ==
    \/ \E entity_id \in ids, entity_type \in types :
          add_entity(entity_id, entity_type)
    \/ \E relationship_id \in rids, source_id \in ids, target_id \in ids,
          relationship_type \in rtypes :
          add_relationship(relationship_id, source_id, target_id,
                           relationship_type)

\* The lists of elements of S of the given lengths.
ListsOf(S, lengths) == UNION {[1..k -> S] : k \in lengths}

\* The dicts import_graph can be given: lists of up to two entity dicts and
\* up to two relationship dicts over the given ids and types.
GraphDatas(ids, types, rids, rtypes) ==
    [entities : ListsOf([id : ids, type : types], 0..2),
     relationships : ListsOf([id : rids, source : ids, target : ids,
                              type : rtypes], 0..2)]

\* import_graph called with any of the given dicts.
ImportCalls(datas) == \E graph_data \in datas : import_graph(graph_data)

\* find_path called with endpoints and max_depth drawn from the given sets.
PathCalls(ids, depths) ==
    \E source_id \in ids, target_id \in ids, max_depth \in depths :
        find_path(source_id, target_id, max_depth)

\* The calls of a client that never uses an id twice: add_entity with an id
\* that is not an entity yet, add_relationship with an id that is not a
\* relationship yet, the relationship being one of edges, a set of
\* <<relationship_id, source_id, target_id>>.
NoReuseCalls(ids, types, edges, rtypes) ==
    \/ \E entity_id \in ids, entity_type \in types :
          /\ entity_id \notin DOMAIN _entities
          /\ add_entity(entity_id, entity_type)
    \/ \E edge \in edges, relationship_type \in rtypes :
          /\ edge[1] \notin DOMAIN _relationships
          /\ add_relationship(edge[1], edge[2], edge[3], relationship_type)

\* import_graph called with the dict export_graph has just returned.
ReimportCalls == last.op = "export_graph" /\ import_graph(last.ret[1])

\* The tool chroma_find_entity_path called with endpoints and max_depth
\* drawn from the given sets.
ToolPathCalls(ids, depths) ==
    \E source_id \in ids, target_id \in ids, max_depth \in depths :
        chroma_find_entity_path(source_id, target_id, max_depth)

GraphNext ==
    \/ GraphCalls(EntityIds, EntityTypes, RelationshipIds, RelationshipTypes)
    \/ ToolPathCalls(EntityIds, Depths)
    \/ get_statistics
    \/ export_graph
    \/ ReimportCalls
    \/ ImportCalls(GraphDatas(EntityIds, EntityTypes, RelationshipIds,
                              RelationshipTypes))
    \/ PathCalls(EntityIds, Depths)

\* The calls a client can make on the tracker with arguments drawn from the
\* given sets, at most MaxPatterns track_operation calls for a collection.
SwarmCalls(operations, collections, queries, strengths, limits) ==
    \/ \E operation_type \in operations, collection_name \in collections,
          query \in queries :
          /\ Len(PatternsOf(_operation_patterns, collection_name))
                < MaxPatterns
          /\ track_operation(operation_type, collection_name, query)
    \/ \E min_strength \in strengths, limit \in limits :
          get_hot_trails(min_strength, limit)

\* track_operation called at most cap times for a collection, and the
\* collection's patterns read by get_collection_patterns.
PatternCalls(operations, collections, queries, cap) ==
    \/ \E operation_type \in operations, collection_name \in collections,
          query \in queries :
          /\ Len(PatternsOf(_operation_patterns, collection_name)) < cap
          /\ track_operation(operation_type, collection_name, query)
    \/ \E collection_name \in collections :
          get_collection_patterns(collection_name)

SwarmNext ==
    \/ SwarmCalls(OperationTypes, Collections, QueryArgs, MinStrengths,
                  Limits)
    \/ PatternCalls(OperationTypes, Collections, QueryArgs, MaxPatterns)

\* Readings of a quiet, a moderate and a busy system, the first two without
\* a memory reading.
Samples ==
    {Metrics(Some(15), None), Metrics(Some(25), None),
     Metrics(Some(85), Some(90))}

\* analyze_and_scale called with one of the given samples, at most cap times.
ScalerCalls(samples, cap) ==
    \E metrics \in samples :
        /\ Len(scaling_decisions) < cap
        /\ analyze_and_scale(metrics)

\* The scaler fed one sample more than the window of recent samples is
\* long, so that a low reading finds more than ten samples in the history.
ScalerNext == ScalerCalls(Samples, RecentSamples + 1)

\* set called by the given callers, each call running statement by
\* statement.
SetSteps(callers, keys, datas, ttls, projects) ==
    \/ \E c \in callers, key \in keys, data \in datas, ttl \in ttls,
          project_id \in projects :
          SetBegin(c, key, data, ttl, project_id)
    \/ \E c \in callers : SetEvictTest(c)
    \/ \E c \in callers : SetPop(c)
    \/ \E c \in callers : SetInsert(c)
    \/ \E c \in callers : SetMove(c)

\* The calls of track_operation that have appended their pattern or are
\* still running.
TracksBegun(collection_name) ==
    Len(PatternsOf(_operation_patterns, collection_name))
        + Cardinality({c \in DOMAIN tasks :
                          /\ tasks[c].op = "track_operation"
                          /\ tasks[c].pc # "done"
                          /\ tasks[c].collection_name = collection_name})

\* track_operation called by the given callers, at most cap times for a
\* collection, each call running statement by statement.
TrackSteps(callers, operations, collections, queries, cap) ==
    \/ \E c \in callers, operation_type \in operations,
          collection_name \in collections, query \in queries :
          /\ TracksBegun(collection_name) < cap
          /\ TrackBegin(c, operation_type, collection_name, query)
    \/ \E c \in callers : TrackCreate(c)
    \/ \E c \in callers : TrackReinforce(c)

\* add_relationship and import_graph called by the given callers, each
\* call running statement by statement.
RelationshipSteps(callers, ids, rids, rtypes, datas) ==
    \/ \E c \in callers, relationship_id \in rids, source_id \in ids,
          target_id \in ids, relationship_type \in rtypes :
          RelationshipBegin(c, relationship_id, source_id, target_id,
                            relationship_type)
    \/ \E c \in callers : RelationshipStore(c)
    \/ \E c \in callers : RelationshipAttach(c)
    \/ \E c \in callers, graph_data \in datas : ImportClear(c, graph_data)
    \/ \E c \in callers : ImportLoad(c)

\* find_path called by the given callers, each call running turn by turn
\* of its loop.
SearchSteps(callers, sources, targets, depths) ==
    \/ \E c \in callers, source_id \in sources, target_id \in targets,
          max_depth \in depths :
          SearchBegin(c, source_id, target_id, max_depth)
    \/ \E c \in callers : SearchTurn(c)

ThreadNext ==
    \/ SearchSteps(Callers, EntityIds, EntityIds, Depths)
    \/ SetSteps(Callers, CacheKeys, CacheData, TtlArgs, ProjectArgs)
    \/ TrackSteps(Callers, OperationTypes, Collections, QueryArgs,
                  MaxPatterns)
    \/ RelationshipSteps(Callers, EntityIds, RelationshipIds,
                         RelationshipTypes,
                         GraphDatas(EntityIds, EntityTypes, RelationshipIds,
                                    RelationshipTypes))

Next == CacheNext \/ GraphNext \/ SwarmNext \/ ScalerNext \/ ThreadNext

Spec == Init /\ [][Next]_vars

\* A cache constructed with max_size = 1.
InitOne == Init /\ max_size = 1

\* A cache constructed with max_size = 2.
InitTwo == Init /\ max_size = 2

\* The graph alone: two entities of one type with two relationship ids, so
\* that ids are reused and relationships run in parallel and in both
\* directions.
NextGraph == GraphCalls({"a", "b"}, {"t1"}, RelationshipIds, RelationshipTypes)

SpecGraph == Init /\ [][NextGraph]_vars

\* The graph built by add_entity and add_relationship and rebuilt by
\* import_graph: two entities, of two types when added one by one, and one
\* relationship id, so that every id is reused and an import finds entities,
\* relationships and index entries that its dict does not list.
NextImport ==
    \/ GraphCalls({"a", "b"}, EntityTypes, {"r1"}, RelationshipTypes)
    \/ ImportCalls(GraphDatas({"a", "b"}, {"t1"}, {"r1"}, RelationshipTypes))

SpecImport == InitOne /\ [][NextImport]_vars

\* A graph of three entities built without using an id twice, any two
\* relationship ids between any two entities, and searched by find_path.
NextPaths ==
    \/ NoReuseCalls({"A", "B", "C"}, {"t1"},
                    {"r1", "r2"} \X {"A", "B", "C"} \X {"A", "B", "C"},
                    RelationshipTypes)
    \/ PathCalls({"A", "B", "C"}, Depths)

SpecPaths == InitOne /\ [][NextPaths]_vars

\* A graph of four entities built without using an id twice from the edges
\* of a triangle A, C, B with a tail B - D, and searched by find_path: D is
\* two hops from A through B and three through C and B.
Edges ==
    {<<"r1", "A", "B">>, <<"r2", "D", "B">>, <<"r3", "A", "C">>,
     <<"r4", "C", "B">>}

NextShortest ==
    \/ NoReuseCalls({"A", "B", "C", "D"}, {"t1"}, Edges, RelationshipTypes)
    \/ PathCalls({"A", "D"}, Depths)

SpecShortest == InitOne /\ [][NextShortest]_vars

\* A tracker of either rate with two trails of one collection, tracked and
\* ranked as time passes.
NextSwarm ==
    \/ SwarmCalls(OperationTypes, Collections, QueryArgs, MinStrengths,
                  Limits)
    \/ Tick

\* SwarmTracker(evaporation_rate) constructed with either rate.
InitSwarm == InitWith(EvaporationRates) /\ max_size = 1

SpecSwarm == InitSwarm /\ [][NextSwarm]_vars

\* The server's tracker asked for its hot trails with a limit below zero as
\* well: chroma_get_hot_trails hands limit to get_hot_trails as it is.
NextLimits ==
    \/ SwarmCalls(OperationTypes, Collections, QueryArgs, {0}, {-2, -1, 0, 1})
    \/ Tick

SpecLimits == InitOne /\ [][NextLimits]_vars

\* One triple tracked again and again, one call more than the window of
\* get_collection_patterns is long, and the collection's patterns read.
NextPatterns ==
    PatternCalls(OperationTypes, Collections, {None}, PatternWindow + 1)

SpecPatterns == InitOne /\ [][NextPatterns]_vars

\* A cache constructed with max_size = 0 or max_size = -1.
InitUnsized == InitOf({0, -1}, {DefaultEvaporationRate})

NextUnsized ==
    \/ CacheCalls(CacheKeys, CacheData, TtlArgs, ProjectArgs, Queries,
                  Collections)
    \/ Tick

SpecUnsized == InitUnsized /\ [][NextUnsized]_vars

\* Sets with the ttl omitted, zero, negative and positive.
TtlSigns == {None, Some(0), Some(-1), Some(1)}

NextTtls ==
    \/ CacheCalls({"k1"}, {"v1"}, TtlSigns, {None}, Queries, Collections)
    \/ Tick

SpecTtls == InitOne /\ [][NextTtls]_vars

NextScaler == ScalerNext

SpecScaler == InitOne /\ [][NextScaler]_vars

\* Two callers setting two keys of the tenant-less store of a cache of
\* max_size 1, at one instant and with the default ttl.
NextSets == SetSteps(Callers, CacheKeys, {"v1"}, {None}, {None})

SpecSets == InitOne /\ [][NextSets]_vars

\* Two callers tracking one triple, while the clock runs.
NextTracks ==
    \/ TrackSteps(Callers, OperationTypes, Collections, {None}, MaxPatterns)
    \/ Tick

SpecTracks == InitOne /\ [][NextTracks]_vars

\* The graph with the entities a and b, and the graph with no entity.
ImportedGraphs ==
    {[entities |-> <<>>, relationships |-> <<>>],
     [entities |-> <<[id |-> "a", type |-> "t1"], [id |-> "b", type |-> "t1"]>>,
      relationships |-> <<>>]}

\* Two callers adding one relationship between two entities and importing
\* a graph, and add_entity called in between.
NextRelations ==
    \/ RelationshipSteps(Callers, EntityIds, {"r1"}, RelationshipTypes,
                         ImportedGraphs)
    \/ \E entity_id \in EntityIds : add_entity(entity_id, "t1")

SpecRelations == InitOne /\ [][NextRelations]_vars

\* The tenant-less store addressed with no project_id and with the
\* project_id "".
NextEmptyTenant ==
    \/ CacheCalls(CacheKeys, {"v1"}, {None}, {None, Some("")}, Queries,
                  Collections)
    \/ Tick

SpecEmptyTenant == InitOne /\ [][NextEmptyTenant]_vars

\* Two entities and one relationship id, every id used again and again, and
\* the graph searched by find_path.
NextWalks ==
    \/ GraphCalls({"a", "b"}, {"t1"}, {"r1"}, RelationshipTypes)
    \/ PathCalls({"a", "b"}, {1, 2})

SpecWalks == InitOne /\ [][NextWalks]_vars

\* Two entities and one relationship id, and the graph searched through the
\* server's tool.
NextTool ==
    \/ GraphCalls({"a", "b"}, {"t1"}, {"r1"}, RelationshipTypes)
    \/ ToolPathCalls({"a", "b"}, {0, 1, 2})

SpecTool == InitOne /\ [][NextTool]_vars

\* Two entities of two types and one relationship id of two types, every id
\* used again and again, and the statistics read.
NextStats ==
    \/ GraphCalls({"a", "b"}, EntityTypes, {"r1"}, {"knows", "likes"})
    \/ get_statistics

SpecStats == InitOne /\ [][NextStats]_vars

\* Two entities and one relationship id, every id used again and again, the
\* graph exported and the export imported.
NextExport ==
    \/ GraphCalls({"a", "b"}, {"t1"}, {"r1"}, RelationshipTypes)
    \/ export_graph
    \/ ReimportCalls

SpecExport == InitOne /\ [][NextExport]_vars

\* Operation types and collection names with and without a colon: the
\* triples ("a:b", "c", "") and ("a", "b:c", "") differ in two components.
NextColons ==
    \/ SwarmCalls({"a", "a:b"}, {"c", "b:c"}, {None}, {0}, {2})
    \/ Tick

SpecColons == InitOne /\ [][NextColons]_vars

\* A graph built without using an id twice from relationships that run in
\* parallel and in both directions between A and B, loop on A, and close the
\* cycle A - B - C - A.
Loops ==
    {<<"r1", "A", "B">>, <<"r2", "B", "A">>, <<"r3", "A", "A">>,
     <<"r4", "B", "C">>, <<"r5", "C", "A">>}

\* The graph is built while no find_path is running, and one caller
\* searches C from A turn by turn.
NextSearch ==
    \/ (\A c \in DOMAIN tasks : tasks[c].pc = "done")
       /\ NoReuseCalls({"A", "B", "C"}, {"t1"}, Loops, RelationshipTypes)
    \/ SearchSteps({1}, {"A"}, {"C"}, {-1, 2, 5})

SpecSearch == InitOne /\ [][NextSearch]_vars

\* A find_path that is running gets its turns.
SpecSearchFair ==
    SpecSearch /\ WF_vars(SearchSteps({1}, {"A"}, {"C"}, {-1, 2, 5}))

\* One scope in depth: two plain keys and the query key on the tenant-less
\* store as time passes, for each max_size of MaxSizes.
NextCache ==
    \/ CacheCalls(CacheKeys, {"v1"}, TtlArgs, {None}, Queries, Collections)
    \/ Tick

SpecCache == Init /\ [][NextCache]_vars

\* Writes and overwrites with two values, on the tenant-less store and one
\* project's, the calls made at one instant with the default ttl.
NextRoundTrip ==
    CacheCalls({"k1"}, CacheData, {None}, {None, Some("A")}, Queries,
               Collections)

SpecRoundTrip == InitTwo /\ [][NextRoundTrip]_vars

\* The tenant-less store and two projects' stores side by side, the calls
\* made at one instant with the default ttl.
NextTenants ==
    CacheCalls(CacheKeys, {"v1"}, {None}, ProjectArgs, Queries, Collections)

SpecTenants == InitOne /\ [][NextTenants]_vars

-----------------------------------------------------------------------------
(* Properties                                                              *)

\* A step that is a call on the engine: every call records itself in last',
\* and the only other step, Tick, moves the clock.
CallStep == now' = now

SetOps == {"set", "cache_query_result"}
GetOps == {"get", "get_query_result"}

Range(seq) == {seq[i] : i \in 1..Len(seq)}

\* The properties name a store by the project_id argument of the call: for
\* the arguments drawn here (None or a non-empty id) that is the reference
\* _get_cache is documented to return, stated without using _get_cache.

\* The entries of the OrderedDict a reference names, after the step.
StoreAfter(ref) ==
    IF ref = None THEN _cache'
    ELSE IF ref[1] \in DOMAIN _project_caches' THEN _project_caches'[ref[1]]
    ELSE <<>>

\* C1: in every reachable state the entry count of the tenant-less store and
\* of every project store is at most max_size (max_size >= 1).
C1_SizeWithinMax ==
    /\ Len(_cache) <= max_size
    /\ \A p \in DOMAIN _project_caches : Len(_project_caches[p]) <= max_size

\* A set has just evicted an entry of a full two-entry store.
C1_Witness ==
    /\ last.op \in SetOps
    /\ last.evicted # <<>>
    /\ max_size = 2
    /\ Len(_cache) = max_size

\* C2: whenever a set evicts, every victim's most recent touch (its creation
\* by set or its last successful get, recorded in last_access) is no later
\* than the most recent touch of every entry that stays.
C2_EvictsLeastRecentlyTouched ==
    [][(CallStep /\ last'.op \in SetOps /\ last'.evicted # <<>>) =>
        LET cache1 == _cleanup_expired(Store(last'.project_id), now)
        IN  \A i, j \in 1..Len(cache1) :
                (/\ cache1[i].key \in Range(last'.evicted)
                 /\ cache1[j].key \notin Range(last'.evicted))
                => cache1[i].last_access <= cache1[j].last_access]_vars

\* What a set stores: an entry under its key holding the data, created at the
\* time of the call, with the ttl given (the default when omitted or 0).
SetStoresEntry ==
    (CallStep /\ last'.op \in SetOps /\ last'.raised = None) =>
        LET cache == StoreAfter(last'.project_id)
        IN  /\ last'.key \in KeysOf(cache)
            /\ EntryOf(cache, last'.key).data = last'.data
            /\ EntryOf(cache, last'.key).timestamp = now
            /\ EntryOf(cache, last'.key).ttl =
                  (IF last'.ttl \in {None, Some(0)} THEN default_ttl
                   ELSE last'.ttl[1])

\* C3: a get of a stored entry written by set at t0 with ttl T returns the
\* data at every time t with t - t0 < T and a miss at every t with
\* t - t0 >= T, the instant t - t0 = T included.
C3_MissFromTtlOn ==
    [][(CallStep /\ last'.op \in GetOps) =>
        LET cache == Store(last'.project_id)
        IN  last'.key \in KeysOf(cache) =>
            LET e == EntryOf(cache, last'.key)
            IN  /\ now - e.timestamp < e.ttl => last'.ret = Some(e.data)
                /\ now - e.timestamp >= e.ttl => last'.ret = None]_vars

\* What the code does at the boundary: a set stores its entry with timestamp
\* t0 = now and ttl T, and a get of a stored entry returns the data at every
\* time t with t - t0 <= T and a miss at every t with t - t0 > T.
GetHitsThroughTtl ==
    [][/\ SetStoresEntry
       /\ (CallStep /\ last'.op \in GetOps) =>
            LET cache == Store(last'.project_id)
            IN  last'.key \in KeysOf(cache) =>
                LET e == EntryOf(cache, last'.key)
                IN  /\ now - e.timestamp <= e.ttl => last'.ret = Some(e.data)
                    /\ now - e.timestamp > e.ttl => last'.ret = None]_vars

\* A get has just returned the data of an entry exactly ttl after its set.
GetHitAtTtl ==
    /\ last.op = "get"
    /\ last.ret = Some("v1")
    /\ last.key \in KeysOf(_cache)
    /\ LET e == EntryOf(_cache, last.key)
       IN  /\ now - e.timestamp = e.ttl
           /\ e.last_access = now
           /\ e.access_count = 1

\* C4: a get of a key whose entry has expired returns a miss and removes that
\* one entry; a get of a key that is not stored is a miss; and get_stats
\* counts in total_entries exactly the entries stored.
C4_ExpiredGetRemoves ==
    [][CallStep =>
        /\ last'.op \in GetOps =>
            LET cache == Store(last'.project_id)
                after == StoreAfter(last'.project_id)
            IN  /\ (/\ last'.key \in KeysOf(cache)
                    /\ now - EntryOf(cache, last'.key).timestamp
                          > EntryOf(cache, last'.key).ttl)
                   => /\ last'.ret = None
                      /\ last'.key \notin KeysOf(after)
                      /\ after = SelectSeq(cache,
                                           LAMBDA e : e.key # last'.key)
                /\ last'.key \notin KeysOf(cache)
                   => last'.ret = None /\ after = cache
        /\ last'.op = "get_stats" =>
            last'.ret[1].total_entries = Len(Store(last'.project_id))]_vars

\* A get has just found its key's entry expired, and the store is empty.
C4_Witness ==
    /\ last.op = "get"
    /\ last.expired
    /\ last.ret = None
    /\ _cache = <<>>

\* C5: a get that follows a set of the same key in the same scope, and a
\* get_query_result that follows a cache_query_result of the same query,
\* collection and project, with no other call in between and the entry not
\* expired, returns the data that was written.
C5_RoundTrip ==
    [][(/\ CallStep
        /\ last.op \in SetOps
        /\ last.raised = None
        /\ \/ last.op = "set" /\ last'.op = "get" /\ last'.key = last.key
           \/ /\ last.op = "cache_query_result"
              /\ last'.op = "get_query_result"
              /\ last'.args = last.args
        /\ last'.project_id = last.project_id
        /\ ~ last'.expired)
       => last'.ret = Some(last.data)]_vars

\* A get_query_result under project A has just returned the second value
\* written for the query, read once since it was written.
C5_Witness ==
    /\ last.op = "get_query_result"
    /\ last.project_id = Some("A")
    /\ last.ret = Some("v2")
    /\ LET cache == Store(Some("A"))
       IN  /\ last.key \in KeysOf(cache)
           /\ EntryOf(cache, last.key).data = "v2"
           /\ EntryOf(cache, last.key).access_count = 1

\* The OrderedDicts of the model: the tenant-less one and each project's.
Refs == {None} \cup {Some(p) : p \in {"A", "B"}}

\* C6: a set, get, cache_query_result, get_query_result, get_stats or clear
\* issued with one scope (a non-empty project id, or none) leaves the entries
\* of every other scope as they were, so no get or get_stats of another
\* scope changes its result.
C6_TenantIsolation ==
    [][(/\ CallStep
        /\ last'.op \in SetOps \cup GetOps \cup {"get_stats", "clear"})
       => \A ref \in Refs :
            ref # last'.project_id =>
               /\ StoreAfter(ref) = Store(ref)
               /\ \A key \in KeysOf(Store(ref)) :
                    get_ret(StoreAfter(ref), key, now) =
                        get_ret(Store(ref), key, now)]_vars

\* A set under project A has just evicted an entry of A while the
\* tenant-less store and project B hold an entry under the same key.
C6_Witness ==
    /\ last.op = "set"
    /\ last.project_id = Some("A")
    /\ last.evicted # <<>>
    /\ KeysOf(Store(Some("A"))) = {"k1"}
    /\ KeysOf(Store(Some("B"))) = {"k1"}
    /\ KeysOf(_cache) = {"k1"}

\* C7: clear_all_projects removes every entry of every project store and
\* leaves the tenant-less store as it was: keys, data, order and access
\* metadata.
C7_ClearAllKeepsGlobal ==
    [][(CallStep /\ last'.op = "clear_all_projects") =>
        /\ _cache' = _cache
        /\ \A p \in {"A", "B"} : StoreAfter(Some(p)) = <<>>]_vars

\* clear_all_projects has just removed the entries of both projects, and the
\* tenant-less store holds an entry that was read.
C7_Witness ==
    /\ last.op = "clear_all_projects"
    /\ last.removed = {"A", "B"}
    /\ Len(_cache) = 1
    /\ _cache[1].access_count = 1

\* C8: get_stats changes no store (no entry removed, no access_count,
\* last_access or position changed), counts every stored entry in
\* total_entries and the expired ones among them in expired_count.
C8_StatsReadOnly ==
    [][(CallStep /\ last'.op = "get_stats") =>
        LET cache == Store(last'.project_id)
        IN  /\ \A ref \in Refs : StoreAfter(ref) = Store(ref)
            /\ last'.ret[1].total_entries = Len(cache)
            /\ last'.ret[1].expired_count =
                  Cardinality({i \in 1..Len(cache) :
                      now - cache[i].timestamp > cache[i].ttl})
            /\ last'.ret[1].active_entries =
                  last'.ret[1].total_entries - last'.ret[1].expired_count]_vars

\* get_stats has just reported an expired entry, which is still stored.
C8_Witness ==
    /\ last.op = "get_stats"
    /\ last.ret[1].expired_count = 1
    /\ last.ret[1].total_entries = 2
    /\ Len(_cache) = 2
    /\ \E i \in 1..2 : now - _cache[i].timestamp > _cache[i].ttl

\* C9: add_relationship with a source or a target that is not in the entity
\* map returns None and leaves the entity map, every entity's relationships,
\* the relationship map and both indices unchanged.
C9_MissingEndpointNoChange ==
    [][(/\ CallStep
        /\ last'.op = "add_relationship"
        /\ \/ last'.source_id \notin DOMAIN _entities
           \/ last'.target_id \notin DOMAIN _entities)
       => /\ last'.ret = None
          /\ _entities' = _entities
          /\ _relationships' = _relationships
          /\ _entity_index' = _entity_index
          /\ _relationship_index' = _relationship_index]_vars

\* add_relationship has just failed on a missing target, its source being an
\* entity of a graph that holds a relationship.
C9_Witness ==
    /\ last.op = "add_relationship"
    /\ last.ret = None
    /\ last.source_id \in DOMAIN _entities
    /\ last.target_id \notin DOMAIN _entities
    /\ _relationships # <<>>

\* C10: right after a successful add_relationship(id, s, t, type) the
\* relationship is stored under id with source s and target t, id is in the
\* relationships of both s and t, and id is in the (s, t) entry of the
\* directed-pair index.
C10_RelationshipRegistered ==
    (last.op = "add_relationship" /\ last.ret # None) =>
        /\ last.relationship_id \in DOMAIN _relationships
        /\ _relationships[last.relationship_id].source_id = last.source_id
        /\ _relationships[last.relationship_id].target_id = last.target_id
        /\ {last.source_id, last.target_id} \subseteq DOMAIN _entities
        /\ last.relationship_id \in _entities[last.source_id].relationships
        /\ last.relationship_id \in _entities[last.target_id].relationships
        /\ <<last.source_id, last.target_id>> \in DOMAIN _relationship_index
        /\ last.relationship_id
              \in _relationship_index[<<last.source_id, last.target_id>>]

\* add_relationship has just succeeded between two distinct entities.
C10_Witness ==
    /\ last.op = "add_relationship"
    /\ last.ret # None
    /\ last.source_id # last.target_id

\* C11: in every state reached by add_entity, add_relationship and
\* import_graph calls, add_entity on an id that already exists included, the
\* relationships of each entity are exactly the ids of the stored
\* relationships whose source or target is that entity.
C11_RelationshipsAreIncident ==
    \A e \in DOMAIN _entities :
        _entities[e].relationships =
            {r \in DOMAIN _relationships :
                e \in {_relationships[r].source_id,
                       _relationships[r].target_id}}

\* C12: in every state reached by add_entity, add_relationship and
\* import_graph calls, every entity id held in the type index is a key of
\* the entity map and every relationship id held in the directed-pair index
\* is a key of the relationship map.
C12_IndexedIdsAreKeys ==
    /\ \A t \in DOMAIN _entity_index :
          _entity_index[t] \subseteq DOMAIN _entities
    /\ \A pair \in DOMAIN _relationship_index :
          _relationship_index[pair] \subseteq DOMAIN _relationships

\* import_graph has just built a graph of two entities joined by a
\* relationship, each index holding their ids.
C12_Witness ==
    /\ last.op = "import_graph"
    /\ _entity_index = [t \in {"t1"} |-> {"a", "b"}]
    /\ _relationship_index = [pair \in {<<"a", "b">>} |-> {"r1"}]

\* The undirected view of the relationships: the entities that a stored
\* relationship joins to x, whichever end x is.
Neighbours(x) ==
    {y \in DOMAIN _entities :
        \E r \in DOMAIN _relationships :
            \/ _relationships[r].source_id = x
                  /\ _relationships[r].target_id = y
            \/ _relationships[r].source_id = y
                  /\ _relationships[r].target_id = x}

\* The entities at most k hops from x in the undirected view.
RECURSIVE WithinHops(_, _)
WithinHops(x, k) ==
    IF k <= 0 THEN {x}
    ELSE LET near == WithinHops(x, k - 1)
         IN  near \cup UNION {Neighbours(y) : y \in near}

\* The least number of hops from x to y, y being reachable from x.
Distance(x, y) ==
    CHOOSE k \in 0..Cardinality(DOMAIN _entities) :
        /\ y \in WithinHops(x, k)
        /\ \A j \in 0..(k - 1) : y \notin WithinHops(x, j)

\* The number of relationships on a path that find_path returned: the path
\* lists an entity with the relationship leaving it, hop by hop, and ends
\* with the target and an empty relationship id.
Hops(path) == Len(path) - 1

\* C13: on a graph built by add_entity and add_relationship calls that never
\* reuse an id, find_path(source, target, max_depth) between two distinct
\* entities returns a path if and only if target is at most max_depth hops
\* from source in the undirected view of the relationships; on the chain
\* A - r1 - B - r2 - C it finds C from A for max_depth >= 2 and not for
\* max_depth = 1.
C13_PathIffWithinDepth ==
    (/\ last.op = "find_path"
     /\ last.source_id # last.target_id
     /\ {last.source_id, last.target_id} \subseteq DOMAIN _entities)
    => (last.ret # None
           <=> last.target_id \in WithinHops(last.source_id, last.max_depth))

\* On the chain A -r1-> B -r2-> C, find_path(C, A, 2) has just returned the
\* path through B, walked against the direction of both relationships.
C13_Witness ==
    /\ last.op = "find_path"
    /\ last.max_depth = 2
    /\ last.ret = Some(<<<<"C", "r2">>, <<"B", "r1">>, <<"A", "">>>>)
    /\ _relationships["r1"].source_id = "A"
    /\ _relationships["r2"].target_id = "C"

\* C14: on a graph built without id reuse, the number of hops on a path that
\* find_path returns between two distinct entities is the least number of
\* hops between them in the undirected view: no shorter path exists.
C14_PathIsShortest ==
    (/\ last.op = "find_path"
     /\ last.source_id # last.target_id
     /\ last.ret # None)
    => Hops(last.ret[1]) = Distance(last.source_id, last.target_id)

\* find_path(A, D, 3) has just returned the two hops through B on the graph
\* in which D is also three hops from A, through C and B.
C14_Witness ==
    /\ last.op = "find_path"
    /\ last.max_depth = 3
    /\ last.ret = Some(<<<<"A", "r1">>, <<"B", "r2">>, <<"D", "">>>>)
    /\ DOMAIN _relationships = {"r1", "r2", "r3", "r4"}

\* C15: find_path(A, A, d) returns the empty path for every entity A of the
\* entity map and every max_depth d, d <= 0 included, and find_path returns
\* None, without raising, whenever source or target is not in the entity
\* map.
C15_TrivialAndMissingEndpoints ==
    last.op = "find_path" =>
        /\ last.raised = None
        /\ (\/ last.source_id \notin DOMAIN _entities
            \/ last.target_id \notin DOMAIN _entities)
           => last.ret = None
        /\ (/\ last.source_id = last.target_id
            /\ last.source_id \in DOMAIN _entities)
           => last.ret = Some(<<>>)

\* find_path(A, A, -1) has just returned the empty path, A being an entity
\* with a relationship.
C15_Witness ==
    /\ last.op = "find_path"
    /\ last.source_id = "A"
    /\ last.target_id = "A"
    /\ last.max_depth = -1
    /\ last.ret = Some(<<>>)
    /\ _entities["A"].relationships # {}

\* The ids of the entity dicts of a dict given to import_graph.
ListedIds(graph_data) ==
    {graph_data.entities[i].id : i \in 1..Len(graph_data.entities)}

\* The relationship dicts of a dict given to import_graph whose source and
\* target are both ids of its entity dicts, as positions in the list.
ListedValid(graph_data) ==
    {i \in 1..Len(graph_data.relationships) :
        /\ graph_data.relationships[i].source \in ListedIds(graph_data)
        /\ graph_data.relationships[i].target \in ListedIds(graph_data)}

\* C16: right after import_graph(g), whatever the graph was before, the
\* entity map holds exactly the entities listed in g, the relationship map
\* holds exactly the relationships of g whose source and target are both
\* entities of g, the others being dropped without an error, and the type
\* index and the directed-pair index hold only ids taken from g.
C16_ImportReplacesGraph ==
    last.op = "import_graph" =>
        LET g == last.graph_data
        IN  /\ last.raised = None
            /\ DOMAIN _entities = ListedIds(g)
            /\ \A e \in DOMAIN _entities :
                  \E i \in 1..Len(g.entities) :
                      /\ g.entities[i].id = e
                      /\ _entities[e].entity_id = e
                      /\ _entities[e].entity_type = g.entities[i].type
            /\ DOMAIN _relationships =
                  {g.relationships[i].id : i \in ListedValid(g)}
            /\ \A r \in DOMAIN _relationships :
                  \E i \in ListedValid(g) :
                      _relationships[r] =
                          Relationship(g.relationships[i].id,
                                       g.relationships[i].source,
                                       g.relationships[i].target,
                                       g.relationships[i].type)
            /\ \A t \in DOMAIN _entity_index :
                  /\ _entity_index[t] \subseteq ListedIds(g)
                  /\ \E i \in 1..Len(g.entities) : g.entities[i].type = t
            /\ \A pair \in DOMAIN _relationship_index :
                  _relationship_index[pair] \subseteq
                      {g.relationships[i].id : i \in ListedValid(g)}

\* import_graph has just stored one relationship of a dict that lists one
\* entity and two relationships, the other relationship ending at an id the
\* dict does not list.
C16_Witness ==
    /\ last.op = "import_graph"
    /\ ListedIds(last.graph_data) = {"a"}
    /\ Len(last.graph_data.relationships) = 2
    /\ last.graph_data.relationships[1].target = "a"
    /\ last.graph_data.relationships[2].target = "b"
    /\ DOMAIN _relationships = {"r1"}
    /\ DOMAIN _entity_index = {"t1"}

\* C17: in every state reached by track_operation and get_hot_trails calls
\* made at non-decreasing times, the strength of every trail lies between
\* 0.0 and 1.0, both included.
C17_StrengthInUnitInterval ==
    \A i \in 1..Len(_trails) :
        0 <= _trails[i].strength /\ _trails[i].strength <= One

\* get_hot_trails has just evaporated a trail of strength 0.5 by 0.6, which
\* left it at 0.0, the trail having been tracked twice.
C17_Witness ==
    /\ last.op = "get_hot_trails"
    /\ evaporation_rate = 3600
    /\ \E i \in 1..Len(_trails) :
          /\ _trails[i].strength = 0
          /\ _trails[i].access_count = 2
          /\ _trails[i].last_update = 2
          /\ _trails[i].metadata.first_seen = 0

\* The trail that a track_operation step has just tracked, before the step
\* (the trail being in the dict) and after it.
TrackedBefore == _trails[TrailIndex(_trails, last'.ret)]
TrackedAfter == _trails'[TrailIndex(_trails', last'.ret)]

\* What track_operation does in either case: it returns the id of the
\* triple, with "" for a missing query, leaves every other trail as it was,
\* and leaves the tracked trail stamped with the current time; a trail it
\* creates has strength 1.0 and the metadata of the call with first_seen the
\* current time; a trail it finds gets strength min(1.0, strength + 0.1),
\* which is not less than the strength it had, and one more access, its
\* metadata kept.
TrackCommon ==
    /\ last'.ret = _generate_trail_id(last'.operation_type,
                                      last'.collection_name,
                                      IF last'.query = None THEN ""
                                      ELSE last'.query[1])
    /\ last'.ret \in TrailIds(_trails')
    /\ \A i \in 1..Len(_trails) :
          _trails[i].trail_id # last'.ret => _trails'[i] = _trails[i]
    /\ TrackedAfter.last_update = now
    /\ IF last'.ret \notin TrailIds(_trails)
       THEN /\ Len(_trails') = Len(_trails) + 1
            /\ TrackedAfter.strength = One
            /\ TrackedAfter.metadata =
                  [operation_type |-> last'.operation_type,
                   collection |-> last'.collection_name,
                   query |-> IF last'.query = None THEN ""
                             ELSE last'.query[1],
                   first_seen |-> now]
       ELSE /\ Len(_trails') = Len(_trails)
            /\ TrackedAfter.strength =
                  IF TrackedBefore.strength + ReinforceAmount <= One
                  THEN TrackedBefore.strength + ReinforceAmount
                  ELSE One
            /\ TrackedAfter.strength >= TrackedBefore.strength
            /\ TrackedAfter.access_count = TrackedBefore.access_count + 1
            /\ TrackedAfter.metadata = TrackedBefore.metadata

\* C18: track_operation on a triple with no trail creates the trail with
\* strength 1.0 and first-seen metadata; on a triple whose trail exists, and
\* only then, it reinforces the trail: strength becomes
\* min(1.0, strength + 0.1), access_count goes up by one and last_update
\* becomes the current time; so a trail that has just been created has not
\* been reinforced and has no access yet.  Tracking a triple again never
\* lowers its strength.
C18_ReinforcesOnlyExisting ==
    [][(CallStep /\ last'.op = "track_operation") =>
        /\ TrackCommon
        /\ last'.ret \notin TrailIds(_trails)
              => TrackedAfter.access_count = 0]_vars

\* C18 as the code has it: track_operation reinforces the trail in either
\* case, so a trail it has just created has strength 1.0, first-seen
\* metadata and one access.
C18_ReinforcesAlways ==
    [][(CallStep /\ last'.op = "track_operation") =>
        /\ TrackCommon
        /\ last'.ret \notin TrailIds(_trails)
              => TrackedAfter.access_count = 1]_vars

\* track_operation has just reinforced, from 0.4 to 0.5, the trail that it
\* created at time 0, while a second trail has evaporated to 0.0.
C18_Witness ==
    /\ last.op = "track_operation"
    /\ now = 1
    /\ Len(_trails) = 2
    /\ \E i, j \in 1..Len(_trails) :
          /\ _trails[i].trail_id = last.ret
          /\ _trails[i].strength = 3000
          /\ _trails[i].access_count = 2
          /\ _trails[i].last_update = 1
          /\ _trails[i].metadata.first_seen = 0
          /\ _trails[j].strength = 2400

\* C19: get_hot_trails first lowers the strength of every trail by
\* evaporation_rate times the minutes that have passed since that trail's
\* own last_update, not below 0.0, and sets its last_update to the current
\* time; so a trail of strength above 0.0, under a positive rate and with
\* time passed since its last update, has a strictly lower strength after
\* the call, and that strength is the one the call reports for it.
C19_EvaporationPerMinute ==
    [][(CallStep /\ last'.op = "get_hot_trails") =>
        /\ Len(_trails') = Len(_trails)
        /\ \A i \in 1..Len(_trails) :
              LET before == _trails[i]
                  after == _trails'[i]
                  seconds == now - before.last_update
              IN  /\ after.trail_id = before.trail_id
                  /\ after.last_update = now
                  /\ after.access_count = before.access_count
                  /\ after.strength >= 0
                  /\ IF before.strength * RateOne * 60
                           >= evaporation_rate * seconds * One
                     THEN (before.strength - after.strength) * RateOne * 60
                              = evaporation_rate * seconds * One
                     ELSE after.strength = 0
                  /\ (/\ before.strength > 0
                      /\ evaporation_rate > 0
                      /\ seconds > 0)
                     => after.strength < before.strength
                  /\ \A k \in 1..Len(last'.ret) :
                        last'.ret[k].trail_id = before.trail_id
                           => last'.ret[k].strength = after.strength]_vars

\* get_hot_trails has just reported, under the rate 0.01 per minute, a trail
\* tracked two seconds before at strength 1.0 less 2/6000.
C19_Witness ==
    /\ last.op = "get_hot_trails"
    /\ evaporation_rate = DefaultEvaporationRate
    /\ now = 2
    /\ Len(last.ret) = 1
    /\ last.ret[1].strength = One - 2
    /\ last.ret[1].access_count = 1
    /\ _trails[1].metadata.first_seen = 0

\* The trails that qualify for a list of hot trails: those whose strength,
\* as evaporation has left it, is at least min_strength.
Qualifying(min_strength) ==
    {i \in 1..Len(_trails) : _trails[i].strength >= min_strength}

\* C20: for every min_strength and every limit >= 0, get_hot_trails returns
\* a list of trails in which every trail has a strength, after evaporation,
\* of at least min_strength, the strengths do not increase along the list,
\* the length is the lesser of limit and the number of qualifying trails,
\* and no qualifying trail that is left out is stronger than one that is
\* included.
C20_HotTrailsRanked ==
    (last.op = "get_hot_trails" /\ last.limit >= 0) =>
        LET ret == last.ret
            qualifying == Qualifying(last.min_strength)
            listed == {ret[k].trail_id : k \in 1..Len(ret)}
        IN  /\ \A k \in 1..Len(ret) :
                  /\ ret[k].strength >= last.min_strength
                  /\ \E i \in qualifying :
                        /\ ret[k].trail_id = _trails[i].trail_id
                        /\ ret[k].strength = _trails[i].strength
                        /\ ret[k].access_count = _trails[i].access_count
                        /\ ret[k].metadata = _trails[i].metadata
            /\ \A k \in 1..(Len(ret) - 1) :
                  ret[k].strength >= ret[k + 1].strength
            /\ Cardinality(listed) = Len(ret)
            /\ Len(ret) = IF last.limit <= Cardinality(qualifying)
                          THEN last.limit ELSE Cardinality(qualifying)
            /\ \A i \in qualifying :
                  _trails[i].trail_id \notin listed =>
                      \A k \in 1..Len(ret) :
                          _trails[i].strength <= ret[k].strength

\* get_hot_trails(0.0, 1) has just returned the stronger of two trails, the
\* one tracked last, and left out the other.
C20_Witness ==
    /\ last.op = "get_hot_trails"
    /\ last.min_strength = 0
    /\ last.limit = 1
    /\ Len(_trails) = 2
    /\ _trails[1].strength < _trails[2].strength
    /\ Len(last.ret) = 1
    /\ last.ret[1].trail_id = _trails[2].trail_id

\* C21: get_hot_trails called with a limit below zero takes the limit as
\* zero and returns an empty list, whatever trails there are: it does not
\* fail and it returns no trail.
C21_NegativeLimitGivesNone ==
    (last.op = "get_hot_trails" /\ last.limit < 0) =>
        last.raised = None /\ last.ret = <<>>

\* C22: once a trail has been created, no track_operation or get_hot_trails
\* call removes it or changes its metadata; a trail whose strength has
\* evaporated to 0.0 stays in the tracker, and a later track_operation of
\* its triple raises its strength again.
C22_TrailsPersist ==
    [][/\ \A i \in 1..Len(_trails) :
             /\ i <= Len(_trails')
             /\ _trails'[i].trail_id = _trails[i].trail_id
             /\ _trails'[i].metadata = _trails[i].metadata
       /\ (/\ CallStep
           /\ last'.op = "track_operation"
           /\ last'.ret \in TrailIds(_trails)
           /\ last'.ret \in TrailIds(_trails'))
          => (TrackedBefore.strength = 0 => TrackedAfter.strength > 0)]_vars

\* track_operation has just raised to 0.1 a trail that it created at time 0
\* and that get_hot_trails had found evaporated to 0.0.
C22_Witness ==
    /\ last.op = "track_operation"
    /\ evaporation_rate = 3600
    /\ \E i \in 1..Len(_trails) :
          /\ _trails[i].trail_id = last.ret
          /\ _trails[i].strength = ReinforceAmount
          /\ _trails[i].access_count = 2
          /\ _trails[i].metadata.first_seen = 0

\* C23: the operation log of a collection is bounded: after any number of
\* track_operation calls for the collection, the number of pattern records
\* stored for it never exceeds a fixed window, the window of the most
\* recent records that get_collection_patterns looks at.
C23_PatternLogBounded ==
    \A collection_name \in DOMAIN _operation_patterns :
        Len(_operation_patterns[collection_name]) <= PatternWindow

\* C27: set terminates and returns the key it was given for every value of
\* max_size the cache was constructed with, zero and negative values
\* included: no set call raises.
C27_SetReturnsKeyForEveryMaxSize ==
    (last.op = "set") =>
        /\ last.raised = None
        /\ last.ret = Some(last.key)

\* C28: a set whose ttl is omitted or not positive (zero or negative)
\* stores the entry with the default ttl, and a get at the instant of the
\* set finds the entry and returns its data.
C28_NonPositiveTtlIsDefault ==
    (/\ last.op = "set"
     /\ last.raised = None
     /\ (last.ttl = None \/ last.ttl[1] <= 0)) =>
        LET cache == Store(_get_cache(last.project_id))
        IN  /\ last.key \in KeysOf(cache)
            /\ EntryOf(cache, last.key).ttl = default_ttl
            /\ get_ret(cache, last.key, EntryOf(cache, last.key).timestamp)
                   = Some(last.data)

\* C29: a stored relationship is never changed: whatever call follows, an
\* add_relationship that names the id of a stored relationship with other
\* endpoints included, the relationship stored under an id stays the
\* record it was created as.
C29_RelationshipsImmutable ==
    [][\A relationship_id \in DOMAIN _relationships :
          relationship_id \in DOMAIN _relationships' =>
              _relationships'[relationship_id] =
                  _relationships[relationship_id]]_vars

\* The cpu_percent of the i-th sample of the history.
CpuAt(i) == GetOrZero(metrics_history[i].metrics.cpu_percent)

AllDone == \A c \in DOMAIN tasks : tasks[c].pc = "done"

\* C24: set calls running concurrently on one store are atomic with
\* respect to each other: once the calls are complete the store holds at
\* most max_size entries, and no set has failed because another caller
\* changed the store between its eviction test and its insertion.
C24_ConcurrentSetsAtomic ==
    AllDone =>
        /\ Len(_cache) <= max_size
        /\ \A c \in DOMAIN tasks :
              tasks[c].op = "set" => tasks[c].raised = None

\* The patterns a collection's log holds for a trail: one for every
\* completed track_operation of the trail's triple.
TracksOf(trail) ==
    Len(SelectSeq(PatternsOf(_operation_patterns, trail.metadata.collection),
                  LAMBDA pattern : pattern.trail_id = trail.trail_id))

\* C25: track_operation calls running concurrently for one triple create or
\* reinforce atomically: once n calls are complete no reinforcement is
\* lost, the trail's access_count is n as after n calls run one after
\* another.
C25_ConcurrentTracksAtomic ==
    AllDone =>
        \A i \in 1..Len(_trails) :
            _trails[i].access_count = TracksOf(_trails[i])

\* C26: an add_relationship running concurrently with add_entity or
\* import_graph is atomic: the call never raises, and when it returns a
\* relationship the relationship is stored and its source and its target
\* are entities whose relationships hold its id.
C26_ConcurrentAddRelationshipAtomic ==
    [][\A c \in DOMAIN tasks' :
          (/\ tasks'[c].op = "add_relationship"
           /\ tasks'[c].pc = "done"
           /\ ~Idle(c)) =>
              /\ tasks'[c].raised = None
              /\ tasks'[c].ret # None =>
                    LET r == tasks'[c].relationship_id
                    IN  /\ r \in DOMAIN _relationships'
                        /\ \A e \in {_relationships'[r].source_id,
                                      _relationships'[r].target_id} :
                              /\ e \in DOMAIN _entities'
                              /\ r \in _entities'[e].relationships]_vars

\* C31: the project_id "" names a scope of its own: a set or a clear called
\* with project_id "" (and the eviction the set performs) never changes what
\* get returns for a key, nor the number of entries get_stats counts, when
\* called with no project_id.
C31_EmptyTenantIsDistinct ==
    [][(/\ CallStep
        /\ last'.op \in {"set", "cache_query_result", "clear"}
        /\ last'.project_id = Some("")) =>
           /\ Len(_cache') = Len(_cache)
           /\ \A key \in KeysOf(_cache) \cup KeysOf(_cache') :
                 get_ret(_cache', key, now) = get_ret(_cache, key, now)]_vars

\* The two endpoints of the stored relationship.
EndpointsOf(relationship_id) ==
    {_relationships[relationship_id].source_id,
     _relationships[relationship_id].target_id}

\* C32: in every graph state, ids used twice included, a path find_path
\* returns for distinct source and target is a well-formed walk: it starts
\* at the source and ends with (target, ""), each of its relationships is
\* stored with exactly the entity it is listed with and the next entity of
\* the path as its endpoints, and no entity occurs twice.
C32_PathIsWalk ==
    (/\ last.op = "find_path"
     /\ last.source_id # last.target_id
     /\ last.ret # None)
    => LET path == last.ret[1]
           k == Len(path) - 1
       IN  /\ k >= 1
           /\ path[1][1] = last.source_id
           /\ path[k + 1] = <<last.target_id, "">>
           /\ \A i \in 1..k :
                 /\ path[i][2] \in DOMAIN _relationships
                 /\ EndpointsOf(path[i][2]) = {path[i][1], path[i + 1][1]}
           /\ \A i, j \in 1..(k + 1) : i # j => path[i][1] # path[j][1]

\* C33: chroma_find_entity_path reports found = true exactly when find_path
\* returned a path, the empty path it returns for an existing entity with
\* source equal to target included, and found = false only when find_path
\* returned None.
C33_FoundIffPath ==
    (last.op = "chroma_find_entity_path") =>
        (last.ret.found <=> last.path # None)

\* The sum of the values of a dict of counts.
RECURSIVE SumOf(_)
SumOf(counts) ==
    IF DOMAIN counts = {} THEN 0
    ELSE LET k == CHOOSE x \in DOMAIN counts : TRUE
         IN  counts[k] + SumOf([x \in DOMAIN counts \ {k} |-> counts[x]])

\* C34: get_statistics reports for each entity type the number of entities
\* of the entity map whose type it is, so the counts by entity type sum to
\* total_entities (also after add_entity has added an id again under
\* another type), and the counts by relationship type sum to
\* total_relationships.
C34_StatisticsCountEntities ==
    (last.op = "get_statistics") =>
        /\ \A entity_type \in DOMAIN last.ret.entity_types :
              last.ret.entity_types[entity_type] =
                  Cardinality({e \in DOMAIN _entities :
                                  _entities[e].entity_type = entity_type})
        /\ SumOf(last.ret.entity_types) = last.ret.total_entities
        /\ SumOf(last.ret.relationship_types) = last.ret.total_relationships

\* C35: a set on a key that is present and unexpired in its store replaces
\* that entry and removes no other unexpired entry of the store, also when
\* the store holds max_size entries: every other live key is retrievable
\* after the set as it was before.
C35_OverwriteEvictsNothing ==
    [][(/\ CallStep
        /\ last'.op = "set"
        /\ last'.raised = None
        /\ last'.project_id = None
        /\ get_ret(_cache, last'.key, now) # None) =>
           \A key \in KeysOf(_cache) \ {last'.key} :
               get_ret(_cache', key, now) = get_ret(_cache, key, now)]_vars

\* C35, amended: a set on a key that is present and unexpired in its store
\* leaves the key holding the new data and the store with at most max_size
\* entries.  While the store holds fewer than max_size unexpired entries it
\* removes no other unexpired entry; when the store holds max_size of them,
\* the oldest is evicted before the write, another live key included.
C35_OverwriteEvictsAtCapacity ==
    [][(/\ CallStep
        /\ last'.op = "set"
        /\ last'.raised = None
        /\ last'.project_id = None
        /\ get_ret(_cache, last'.key, now) # None) =>
           LET live == _cleanup_expired(_cache, now)
               n == Len(live)
           IN  /\ get_ret(_cache', last'.key, now) = Some(last'.data)
               /\ Len(_cache') <= max_size
               /\ n < max_size =>
                     \A key \in KeysOf(live) \ {last'.key} :
                         get_ret(_cache', key, now) = get_ret(_cache, key, now)
               /\ n >= max_size =>
                     KeysOf(_cache') =
                         KeysOf(SubSeq(live, n - max_size + 2, n))
                             \cup {last'.key}]_vars

\* In a cache of max_size 2 holding two live keys, a set on the newer key
\* has just evicted the older one.
C35_Witness ==
    /\ last.op = "set"
    /\ max_size = 2
    /\ Len(last.evicted) = 1
    /\ last.evicted[1] # last.key
    /\ Len(_cache) = 1

\* C36: find_path is symmetric in every graph state: for entities a and b
\* and every max_depth, find_path(a, b, max_depth) returns a path if and
\* only if find_path(b, a, max_depth) does, also after add_entity was
\* called again on an id that had relationships.
C36_FindPathSymmetric ==
    (/\ last.op = "find_path"
     /\ {last.source_id, last.target_id} \subseteq DOMAIN _entities)
    => \A back \in find_path_returns(last.target_id, last.source_id,
                                     last.max_depth) :
           back # None <=> last.ret # None

\* C37: for every graph built by add_entity and add_relationship calls,
\* import_graph(export_graph()) leaves a graph whose export is the export it
\* was given: the same entities with the same types and the same sets of
\* relationship ids, and the same relationships.
C37_ExportImportRoundTrip ==
    [][(/\ last.op = "export_graph"
        /\ last'.op = "import_graph"
        /\ last'.graph_data = last.ret[1]) =>
           /\ _entities' = _entities
           /\ _relationships' = _relationships]_vars

\* C38: the trail id is injective on triples: a track_operation reinforces
\* the trail of its own (operation_type, collection, query or "") triple
\* and no other, also when a component contains a colon.
C38_TrailIdInjective ==
    (last.op = "track_operation") =>
        \A i \in 1..Len(_trails) :
            _trails[i].trail_id = last.ret =>
                /\ _trails[i].metadata.operation_type = last.operation_type
                /\ _trails[i].metadata.collection = last.collection_name
                /\ _trails[i].metadata.query = QueryStr(last.query)

\* The times of the track_operation calls of a trail, oldest first, as the
\* operation log of its collection records them.
TrackTimes(trail) ==
    LET tracks ==
            SelectSeq(PatternsOf(_operation_patterns,
                                 trail.metadata.collection),
                      LAMBDA pattern : pattern.trail_id = trail.trail_id)
    IN  [i \in 1..Len(tracks) |-> tracks[i].timestamp]

\* The strength of a trail after the given number of track_operation calls
\* and no get_hot_trails in between: created with 1.0 and reinforced by the
\* first call, reinforced by every later one, and never evaporated, since
\* only get_hot_trails evaporates.
RECURSIVE TrackedStrength(_)
TrackedStrength(n) ==
    IF n = 1 THEN Min(One, One + ReinforceAmount)
    ELSE Min(One, TrackedStrength(n - 1) + ReinforceAmount)

\* The strength a first get_hot_trails at time t reports for a trail
\* tracked at the given times: the evaporation of the time since the last
\* track_operation, which stamped the trail, is taken off.
UnreadStrength(times, rate, t) ==
    Max(0, TrackedStrength(Len(times))
               - evaporation(rate, t - times[Len(times)]))

\* C39: reading does not change what later reads report: the strength
\* get_hot_trails reports for a trail is the strength it would report had
\* get_hot_trails never been called before, which follows from the times of
\* the trail's track_operation calls alone.
C39_ReadsDoNotChangeReports ==
    (last.op = "get_hot_trails") =>
        \A i \in 1..Len(last.ret) :
            LET trail == _trails[TrailIndex(_trails, last.ret[i].trail_id)]
            IN  last.ret[i].strength =
                    UnreadStrength(TrackTimes(trail), evaporation_rate,
                                   trail.last_update)

\* The ids of the sequence are all different.
NoRepeat(ids) == \A i, j \in 1..Len(ids) : i # j => ids[i] # ids[j]

\* C40: find_path terminates on every graph, with cycles, self-loops and
\* parallel relationships, for every max_depth: no entity is expanded
\* twice, a search that ends without a path has emptied its queue, and
\* every search that is running ends.
C40_FindPathTerminates ==
    /\ [](\A c \in DOMAIN tasks :
             tasks[c].op = "find_path" =>
                 /\ NoRepeat(tasks[c].expanded)
                 /\ (tasks[c].pc = "done" /\ tasks[c].ret = None
                        /\ tasks[c].expanded # <<>>)
                       => tasks[c].queue = <<>>)
    /\ \A c \in Callers :
          At(c, "find_path", "loop") ~> At(c, "find_path", "done")

\* A search from A with max_depth 5 has ended without a path to C after
\* expanding A and B, which a self-loop and two parallel relationships
\* connect.
C40_Witness ==
    /\ At(1, "find_path", "done")
    /\ tasks[1].ret = None
    /\ tasks[1].max_depth = 5
    /\ tasks[1].expanded = <<"A", "B">>
    /\ {"r1", "r2", "r3"} \subseteq DOMAIN _relationships


=============================================================================
